---------------------------- MODULE Spec2Model ----------------------------
(***************************************************************************)
(* Model of the kepler-bun-proxy request pipeline: TokenService (per-key   *)
(* AsyncLock, credential cache, token exchange), TokenRateLimiter (token   *)
(* bucket with timed sleeps) and the app.all handler with its auth retry.  *)
(*                                                                         *)
(* JavaScript runs one continuation at a time, so every action below is    *)
(* one run-to-completion piece of code between two suspension points       *)
(* (await).  A process is one asynchronous call chain: an inbound request  *)
(* handled by app.all, or a direct caller of getToken / waitForTokens.     *)
(*                                                                         *)
(* Time is kept relative: instead of Date.now() and stored timestamps the  *)
(* model keeps the elapsed milliseconds since each stored timestamp and    *)
(* the remaining milliseconds of each timer, so that time can advance      *)
(* without bound in a finite state space.                                  *)
(***************************************************************************)
EXTENDS Integers, Sequences, FiniteSets, TLC

\* ------------------------------------------------------------------ bounds
NProcs == 2
MaxTokens == 2
TicksPerWindow == 2
MaxReloads == 2
MaxBurst == 2
TicksPerDebounce == 2
MaxPathLen == 3

Procs == 1..NProcs

\* ------------------------------------------------------- values and inputs
None == "none"

\* a timer that is not set
NoTimer == 0 - 1

\* inbound authorization header values (credential keys, case-sensitive)
Keys == {"Bearer k1", "Bearer k2"}

\* callers of an asynchronous operation
Driver == "driver"
Handler == "handler"

\* bodies the token endpoint can answer with: raw is the body text after
\* trim(), tokenProp the first non-blank string property among token,
\* access_token, accessToken when the text parses to a JSON object
TokenBodies ==
    { [raw |-> "",                     tokenProp |-> None],
      [raw |-> "tokA",                 tokenProp |-> None],
      [raw |-> "{\"token\":\"tokA\"}", tokenProp |-> "tokA"] }

\* what a getToken call can settle with besides a token or none
Errors == {"AbortError", "TypeError"}

\* provider names of the configuration (keys of proxy.providers)
ProviderNames == {"Kepler", "kepler"}

\* String.prototype.toLowerCase on the provider names, model names and
\* characters the model uses
toLowerCase(name) ==
    CASE name = "Kepler" -> "kepler"
      [] name = "Alias-X" -> "alias-x"
      [] name = "Application/JSON" -> "application/json"
      [] name = "A" -> "a"
      [] name = "C" -> "c"
      [] OTHER -> name

\* String.prototype.trim on the model names the model uses
trim(name) ==
    CASE name = " canonical-y " -> "canonical-y"
      [] name = "  " -> ""
      [] OTHER -> name

\* strings that are looked into are sequences of characters
lowerCased(s) == [i \in 1..Len(s) |-> toLowerCase(s[i])]
startsWith(s, prefix) ==
    Len(prefix) <= Len(s) /\ SubSeq(s, 1, Len(prefix)) = prefix
endsWith(s, suffix) ==
    Len(suffix) <= Len(s) /\ SubSeq(s, Len(s) - Len(suffix) + 1, Len(s)) = suffix

\* the strings over an alphabet, up to a length
StringsUpTo(chars, n) == UNION {[1..k -> chars] : k \in 0..n}

\* tokenLimitPerMinute values and token counts of requests
Limits == {0, 1, 2}
TokenCounts == 0..MaxTokens

\* a ProviderConfig as mapProxyConfig builds it
Provider(routePrefix, defaultModel, modelAliasLookup, disableStreaming, stripRequestProperties, tokenLimitPerMinute) ==
    [routePrefix |-> routePrefix, defaultModel |-> defaultModel,
     modelAliasLookup |-> modelAliasLookup,
     disableStreaming |-> disableStreaming,
     stripRequestProperties |-> stripRequestProperties,
     tokenLimitPerMinute |-> tokenLimitPerMinute]

\* an entry of proxy.providers; the table is a sequence in insertion order,
\* the order of Object.entries
Entry(name, provider) == [name |-> name, provider |-> provider]

\* the provider "Kepler" of the snapshots below: route prefix /a, models
\* canonical-y with alias alias-x
KeplerRoute == <<"/", "a">>
KeplerAliases == [alias \in {"alias-x"} |-> "canonical-y"]
Kepler(tokenLimitPerMinute) ==
    Entry("Kepler", Provider(KeplerRoute, "", KeplerAliases, FALSE, <<>>,
                             tokenLimitPerMinute))

\* an AppConfig, as far as the proxy reads it
Config(convertToken, tokenEndpoint, providers) ==
    [convertToken |-> convertToken, tokenEndpoint |-> tokenEndpoint,
     providers |-> providers]

\* token endpoints: a blank one is what the getTokenEndpoint parameter of
\* TokenService may return; mapProxyConfig never loads a blank one
Endpoints == {"", "https://idp/token"}

\* configuration snapshots with the one provider "Kepler"
Configs ==
    {Config(convertToken, tokenEndpoint, <<Kepler(limit)>>) :
        convertToken \in BOOLEAN, tokenEndpoint \in Endpoints, limit \in Limits}

\* the tokenLimitPerMinute of the first provider of a snapshot
limitOf(config) == config.providers[1].provider.tokenLimitPerMinute

\* response statuses of the upstream provider
Statuses == {"200", "401", "403", "500"}

\* clock units
MsPerSecond == 1000
SecondsPerMinute == 60
WindowMs == 60000
MinDelayMs == 10
statusIntervalMs == 250
statusTickMs == 1000
ReloadDebounceMs == 100

\* bucket.available is counted in 1/Scale of a token, which makes
\* (elapsedMs / 1000) * (limitPerMinute / 60) an integer
Scale == MsPerSecond * SecondsPerMinute

\* refillRatePerSecond / 1000, the refill of one millisecond: a whole
\* number of 1/Scale tokens, since refillRatePerSecond is limitPerMinute *
\* Scale / 60
perMs(refillRatePerSecond) == refillRatePerSecond \div MsPerSecond

\* the step by which the clock advances
TickMs == WindowMs \div TicksPerWindow

\* the longest interval over which admissions are measured
MeterMs == 2 * WindowMs

Min(a, b) == IF a <= b THEN a ELSE b
Max(a, b) == IF a >= b THEN a ELSE b
CeilDiv(a, b) == (a + b - 1) \div b

\* ---------------------------------------------------------------- state
VARIABLES
    pc,          \* pc[p]: position of process p
    aborted,     \* aborted[p]: request.signal.aborted of p
    abortedAt,   \* history: position of p when its signal fired
    currentConfig, \* ConfigStore.currentConfig, the snapshot in effect
    reloadTimer, \* ms until the setTimeout of scheduleReload fires (NoTimer: unset)
    loading,     \* reload() calls that await loadConfig, in the order they
                 \* started; each: has a reload that started after it
                 \* replaced the snapshot already
    sinceEvent,  \* history: ms since the watcher's last tracked event, saturated
    burst,       \* history: events of the current burst, saturated
    reported,    \* the outcome reload() wrote to the console last
    cache,       \* TokenService.cache: key -> entry (a Map)
    locks,       \* TokenService.locks: key -> AsyncLock (a Map)
    gt,          \* gt[p]: frame of p's getToken call
    exchanges,   \* history: outbound token-exchange calls started per key
    buckets,     \* TokenRateLimiter.buckets: normalized key -> Bucket (a Map)
    activeKeys,  \* TokenRateLimiter.activeKeys, in insertion order
    statusTimer, \* ms until the setInterval of trackActiveKey fires (NoTimer: unset)
    sinceStatus, \* Date.now() - lastStatusAtUnixMs, saturated
    rl,          \* rl[p]: frame of p's waitForTokens call
    timer,       \* timer[p]: ms until the setTimeout of p's sleep fires
    granted,     \* history: per bucket, tokens credited to it so far
    meter,       \* history: the tokens a bucket admitted over an interval
    req          \* req[p]: frame of the app.all handler run for request p

sigVars == <<aborted, abortedAt>>
tokenVars == <<cache, locks, gt, exchanges>>
limiterVars == <<buckets, activeKeys, statusTimer, sinceStatus, rl, timer, granted,
                 meter>>

configVars == <<currentConfig, reloadTimer, loading, sinceEvent, burst, reported>>

vars == <<pc, sigVars, configVars, tokenVars, limiterVars, req>>

\* ------------------------------------------------------------ AsyncLock
\* new AsyncLock()
NewAsyncLock == [locked |-> FALSE, queue |-> <<>>]

\* AsyncLock.acquire by a mutant that never looks at the flag
acquireImmediatelyAlways(lock) == TRUE

\* AsyncLock.acquire: the test `if (!this.locked)`
acquireImmediately(lock) == ~lock.locked

\* AsyncLock.acquire, the part that runs before the await: the lock after p
\* called acquire
acquire(lock, p) ==
    IF acquireImmediately(lock)
        THEN [lock EXCEPT !.locked = TRUE]
        ELSE [lock EXCEPT !.queue = Append(@, p)]

\* AsyncLock.release by a mutant that also clears the flag when it hands
\* the lock to a waiter
releaseUnlocks(lock) ==
    IF lock.queue # <<>>
        THEN [lock EXCEPT !.queue = Tail(@), !.locked = FALSE]
        ELSE [lock EXCEPT !.locked = FALSE]

\* AsyncLock.release: hand the lock to the first queued waiter, or unlock
release(lock) ==
    IF lock.queue # <<>>
        THEN [lock EXCEPT !.queue = Tail(@)]
        ELSE [lock EXCEPT !.locked = FALSE]

\* the waiter that release() resumes (0: none)
releaseNext(lock) == IF lock.queue # <<>> THEN Head(lock.queue) ELSE 0

\* TokenService.getOrCreateLock by a mutant that keeps one lock for all keys
getOrCreateLockShared(key) ==
    IF DOMAIN locks # {} THEN locks[CHOOSE k \in DOMAIN locks : TRUE]
    ELSE NewAsyncLock

\* TokenService.getOrCreateLock
getOrCreateLock(key) == IF key \in DOMAIN locks THEN locks[key] ELSE NewAsyncLock

\* Map.set
MapSet(m, k, v) == [x \in DOMAIN m \cup {k} |-> IF x = k THEN v ELSE m[x]]

\* ---------------------------------------------------------- TokenService
\* the getTokenEndpoint closure of index.ts, after trim()
getTokenEndpoint == currentConfig.tokenEndpoint

\* cached?.token by a mutant that finds no entry
cachedTokenNever(key) == None

\* cached?.token of getToken
cachedToken(key) == IF key \in DOMAIN cache THEN cache[key].token ELSE None

\* requestToken, from the response on: the token it returns
requestTokenResult(ok, json, body) ==
    IF ~ok THEN None
    ELSE IF body.raw = "" THEN None
    ELSE IF json /\ body.tokenProp # None THEN body.tokenProp
    ELSE body.raw

NoFrame == [key |-> None, force |-> FALSE, result |-> None, caller |-> None,
            endpoint |-> None]

\* the position a process continues at when its getToken call settles
AfterGetToken(caller) == IF caller = Driver THEN "done" ELSE "so_token"

\* getToken by a mutant whose second cache check ignores forceRefresh
recheckCacheForced(key, force) == cachedToken(key) # None

\* getToken by a mutant without the second cache check
recheckCacheNever(key, force) == FALSE

\* getToken: the cache check repeated under the lock
recheckCache(key, force) == ~force /\ cachedToken(key) # None

\* the finally block of getToken by a mutant that releases only when the
\* try block did not throw
finallyReleaseUnlessThrown(lock, result) ==
    IF result \in Errors THEN lock ELSE release(lock)

\* the finally block of getToken
finallyRelease(lock, result) == release(lock)

\* getToken, up to the await of lock.acquire()
GetTokenCall(p, key, force, caller) ==
    IF ~force /\ cachedToken(key) # None
        THEN /\ gt' = [gt EXCEPT ![p] = [key |-> key, force |-> force,
                                         result |-> cachedToken(key),
                                         caller |-> caller, endpoint |-> None]]
             /\ pc' = [pc EXCEPT ![p] = AfterGetToken(caller)]
             /\ UNCHANGED locks
        ELSE LET lock == getOrCreateLock(key) IN
             /\ gt' = [gt EXCEPT ![p] = [key |-> key, force |-> force,
                                         result |-> None, caller |-> caller,
                                         endpoint |-> None]]
             /\ locks' = MapSet(locks, key, acquire(lock, p))
             /\ pc' = [pc EXCEPT ![p] =
                         IF acquireImmediately(lock) THEN "gt_locked"
                                                     ELSE "gt_queued"]

\* the finally block of getToken: release the lock, settle the call
GetTokenSettle(p, result) ==
    LET key == gt[p].key
        next == releaseNext(locks[key]) IN
    /\ locks' = [locks EXCEPT ![key] = finallyRelease(@, result)]
    /\ gt' = [gt EXCEPT ![p].result = result]
    /\ pc' = [q \in Procs |-> IF q = p THEN AfterGetToken(gt[p].caller)
                              ELSE IF q = next THEN "gt_locked"
                              ELSE pc[q]]

\* a direct caller invokes getToken
StartGetToken(p, key, force) ==
    /\ pc[p] = "idle"
    /\ GetTokenCall(p, key, force, Driver)
    /\ UNCHANGED <<sigVars, configVars, cache, exchanges, limiterVars, req>>

\* getToken resumes holding the lock: second cache check, then requestToken
\* up to the await of fetch
GetTokenLocked(p) ==
    /\ pc[p] = "gt_locked"
    /\ LET key == gt[p].key IN
       IF recheckCache(key, gt[p].force)
           THEN /\ GetTokenSettle(p, cachedToken(key))
                /\ UNCHANGED <<cache, exchanges>>
       ELSE IF getTokenEndpoint = ""
           THEN /\ GetTokenSettle(p, None)
                /\ UNCHANGED <<cache, exchanges>>
       ELSE IF aborted[p]
           THEN /\ GetTokenSettle(p, "AbortError")
                /\ UNCHANGED <<cache, exchanges>>
       ELSE /\ pc' = [pc EXCEPT ![p] = "gt_fetch"]
            /\ gt' = [gt EXCEPT ![p].endpoint = getTokenEndpoint]
            /\ exchanges' = [exchanges EXCEPT ![key] = @ + 1]
            /\ UNCHANGED <<cache, locks>>
    /\ UNCHANGED <<sigVars, configVars, limiterVars, req>>

\* a TokenCacheEntry; lastUpdatedUnixMs is the time of the write, told by
\* the number of the exchange on the key that was answered last before it
TokenCacheEntry(token, lastUpdatedUnixMs) ==
    [token |-> token, lastUpdatedUnixMs |-> lastUpdatedUnixMs]

\* getToken by a mutant that caches whatever requestToken returns
cachedAlways(key, token) ==
    MapSet(cache, key, TokenCacheEntry(token, exchanges[key]))

\* getToken, after requestToken: `if (!token) return null`, then cache.set
cached(key, token) ==
    IF token = None THEN cache
    ELSE MapSet(cache, key, TokenCacheEntry(token, exchanges[key]))

\* the token endpoint answers: status line and headers arrive
FetchResponse(p, ok) ==
    /\ pc[p] = "gt_fetch"
    /\ IF ok
           THEN /\ pc' = [pc EXCEPT ![p] = "gt_text"]
                /\ UNCHANGED <<locks, gt>>
           ELSE GetTokenSettle(p, None)
    /\ UNCHANGED <<sigVars, configVars, cache, exchanges, limiterVars, req>>

\* response.text() resolves: requestToken returns, getToken caches
FetchBody(p, json, body) ==
    /\ pc[p] = "gt_text"
    /\ LET token == requestTokenResult(TRUE, json, body) IN
       /\ GetTokenSettle(p, token)
       /\ cache' = cached(gt[p].key, token)
    /\ UNCHANGED <<sigVars, configVars, exchanges, limiterVars, req>>

\* the token endpoint cannot be reached or the connection breaks: fetch or
\* response.text() rejects
FetchFails(p) ==
    /\ pc[p] \in {"gt_fetch", "gt_text"}
    /\ GetTokenSettle(p, "TypeError")
    /\ UNCHANGED <<sigVars, configVars, cache, exchanges, limiterVars, req>>

\* ------------------------------------------------------- TokenRateLimiter
NoWait == [key |-> None, limitPerMinute |-> 0, tokens |-> 0, caller |-> None,
           result |-> None, deducted |-> 0]

\* the position a process continues at when its waitForTokens call settles
AfterWait(caller) == IF caller = Driver THEN "done" ELSE "h_admitted"

\* the bucket getOrCreateBucket creates
NewBucket(limitPerMinute) ==
    [capacity |-> limitPerMinute,
     available |-> limitPerMinute * Scale,
     refillRatePerSecond |-> (limitPerMinute * Scale) \div SecondsPerMinute,
     sinceRefill |-> 0,
     usageWindow |-> <<>>,
     usedInWindow |-> 0]

\* getOrCreateBucket on the bucket map bs: the map after the call
getOrCreateBucketIn(bs, key, limitPerMinute) ==
    IF key \in DOMAIN bs THEN bs
    ELSE MapSet(bs, key, NewBucket(limitPerMinute))

\* getOrCreateBucket: the bucket map after the call
getOrCreateBucket(key, limitPerMinute) ==
    getOrCreateBucketIn(buckets, key, limitPerMinute)

\* refillBucket by a mutant that does not cap the refill at the capacity
refillBucketUncapped(bucket) ==
    LET elapsedMs == bucket.sinceRefill IN
    IF elapsedMs <= 0 THEN bucket
    ELSE [bucket EXCEPT
            !.available = @ + elapsedMs * perMs(bucket.refillRatePerSecond),
            !.sinceRefill = 0]

\* refillBucket
refillBucket(bucket) ==
    LET elapsedMs == bucket.sinceRefill IN
    IF elapsedMs <= 0 THEN bucket
    ELSE [bucket EXCEPT
            !.available = Min(bucket.capacity * Scale,
                              @ + elapsedMs * perMs(bucket.refillRatePerSecond)),
            !.sinceRefill = 0]

\* pruneUsageWindow by a mutant whose loop shifts the stale samples out
\* without subtracting their tokens
pruneLoopKeepsUsed(bucket) ==
    [bucket EXCEPT !.usageWindow = SelectSeq(@, LAMBDA sample : sample.age <= WindowMs)]

\* the while loop of pruneUsageWindow: drop samples older than the window
RECURSIVE pruneLoop(_)
pruneLoop(bucket) ==
    IF Len(bucket.usageWindow) > 0 /\ bucket.usageWindow[1].age > WindowMs
        THEN pruneLoop([bucket EXCEPT
                          !.usedInWindow = @ - bucket.usageWindow[1].tokens,
                          !.usageWindow = Tail(@)])
        ELSE bucket

\* pruneUsageWindow
pruneUsageWindow(bucket) ==
    LET pruned == pruneLoop(bucket) IN
    IF pruned.usedInWindow < 0 THEN [pruned EXCEPT !.usedInWindow = 0] ELSE pruned

\* recordUsage by a mutant that records nothing
recordUsageNever(bucket, tokens) == bucket

\* recordUsage
recordUsage(bucket, tokens) ==
    IF tokens <= 0 THEN bucket
    ELSE pruneUsageWindow([bucket EXCEPT
            !.usageWindow = Append(@, [age |-> 0, tokens |-> tokens]),
            !.usedInWindow = @ + tokens])

\* emitStatus: whether the call gets past its throttle
emits(force) == force \/ sinceStatus >= statusIntervalMs

\* trackActiveKey
trackActiveKey(key) ==
    /\ activeKeys' = IF \E i \in 1..Len(activeKeys) : activeKeys[i] = key
                        THEN activeKeys ELSE Append(activeKeys, key)
    /\ statusTimer' = IF statusTimer = NoTimer THEN statusTickMs ELSE statusTimer

\* waitForTokens by a mutant that admits whatever the bucket can ever hold
canAdmitUpToCapacity(bucket, tokens) == bucket.capacity * Scale >= tokens * Scale

\* waitForTokens: the test `bucket.available >= tokens`
canAdmit(bucket, tokens) == bucket.available >= tokens * Scale

\* waitForTokens by a mutant that takes delaySeconds for milliseconds
delayMsFromSeconds(bucket, tokens) ==
    LET deficit == tokens * Scale - bucket.available IN
    Max(MinDelayMs, CeilDiv(deficit, bucket.refillRatePerSecond))

\* waitForTokens: the delay computed for a waiter that is not admitted
delayMs(bucket, tokens) ==
    LET deficit == tokens * Scale - bucket.available IN
    Max(MinDelayMs, CeilDiv(deficit, perMs(bucket.refillRatePerSecond)))

\* waitForTokens by a mutant without the escape valve
escapesOnlyNonPositive(limitPerMinute, tokens) == limitPerMinute <= 0 \/ tokens <= 0

\* waitForTokens: the two early returns
escapes(limitPerMinute, tokens) ==
    limitPerMinute <= 0 \/ tokens <= 0 \/ tokens > limitPerMinute

\* no interval is being measured
NoMeter == [key |-> None, capacity |-> 0, elapsedMs |-> 0, admitted |-> 0]

\* the measurement after the bucket key admitted tokens
metered(key, tokens) ==
    IF meter.key = key THEN [meter EXCEPT !.admitted = @ + tokens] ELSE meter

\* one pass of the while loop of waitForTokens for p on the bucket map bs:
\* refill, status, then admit and return, or sleep
WaitLoop(p, bs, frame) ==
    LET key == frame.key
        refilled == refillBucket(bs[key])
        bucket == IF emits(FALSE) THEN pruneUsageWindow(refilled) ELSE refilled
        credit == refilled.available - bs[key].available
        creation == IF key \in DOMAIN buckets THEN 0 ELSE bs[key].available
    IN
    /\ granted' = MapSet(granted, key,
                         (IF key \in DOMAIN granted THEN granted[key] ELSE 0)
                         + creation + credit)
    /\ IF canAdmit(bucket, frame.tokens)
          THEN /\ buckets' = [bs EXCEPT ![key] = pruneUsageWindow(recordUsage(
                       [bucket EXCEPT !.available = @ - frame.tokens * Scale],
                       frame.tokens))]
               /\ sinceStatus' = 0
               /\ meter' = metered(key, frame.tokens)
               /\ rl' = [rl EXCEPT ![p] = [frame EXCEPT !.result = "admitted",
                                                       !.deducted = frame.tokens]]
               /\ timer' = [timer EXCEPT ![p] = NoTimer]
               /\ pc' = [pc EXCEPT ![p] = AfterWait(frame.caller)]
          ELSE /\ buckets' = [bs EXCEPT ![key] = bucket]
               /\ sinceStatus' = IF emits(FALSE) THEN 0 ELSE sinceStatus
               /\ meter' = meter
               /\ IF aborted[p]
                     THEN /\ rl' = [rl EXCEPT ![p] = [frame EXCEPT !.result = "AbortError"]]
                          /\ timer' = [timer EXCEPT ![p] = NoTimer]
                          /\ pc' = [pc EXCEPT ![p] = AfterWait(frame.caller)]
                     ELSE /\ rl' = [rl EXCEPT ![p] = frame]
                          /\ timer' = [timer EXCEPT ![p] = delayMs(bucket, frame.tokens)]
                          /\ pc' = [pc EXCEPT ![p] = "rl_sleep"]

\* waitForTokens, up to its first await or its return
WaitCall(p, key, limitPerMinute, tokens, caller) ==
    LET frame == [key |-> toLowerCase(key), limitPerMinute |-> limitPerMinute,
                  tokens |-> tokens, caller |-> caller, result |-> None,
                  deducted |-> 0] IN
    IF escapes(limitPerMinute, tokens)
        THEN /\ rl' = [rl EXCEPT ![p] = [frame EXCEPT !.result = "unthrottled"]]
             /\ pc' = [pc EXCEPT ![p] = AfterWait(caller)]
             /\ UNCHANGED <<buckets, activeKeys, statusTimer, sinceStatus, timer, granted,
                            meter>>
        ELSE /\ trackActiveKey(frame.key)
             /\ WaitLoop(p, getOrCreateBucket(frame.key, limitPerMinute), frame)

\* a direct caller invokes waitForTokens
StartWait(p, key, limitPerMinute, tokens) ==
    /\ pc[p] = "idle"
    /\ WaitCall(p, key, limitPerMinute, tokens, Driver)
    /\ UNCHANGED <<sigVars, configVars, tokenVars, req>>

\* the sleep of p ends and waitForTokens goes round its loop again
WaitWake(p) ==
    /\ pc[p] = "rl_sleep"
    /\ timer[p] = 0
    /\ WaitLoop(p, buckets, rl[p])
    /\ UNCHANGED <<sigVars, configVars, tokenVars, activeKeys, statusTimer, req>>

\* registerLimit by a mutant that fills the bucket up when the limit changes
registeredFull(bs, name, limitPerMinute) ==
    LET key == toLowerCase(name)
        created == getOrCreateBucketIn(bs, key, limitPerMinute)
        bucket == IF created[key].capacity # limitPerMinute
                    THEN [created[key] EXCEPT
                            !.capacity = limitPerMinute,
                            !.refillRatePerSecond =
                                (limitPerMinute * Scale) \div SecondsPerMinute,
                            !.available = limitPerMinute * Scale]
                    ELSE created[key]
    IN [created EXCEPT ![key] = pruneUsageWindow(bucket)]

\* registerLimit on the bucket map bs, for a positive limit: the map after
\* the call
registered(bs, name, limitPerMinute) ==
    LET key == toLowerCase(name)
        created == getOrCreateBucketIn(bs, key, limitPerMinute)
        bucket == IF created[key].capacity # limitPerMinute
                    THEN [created[key] EXCEPT
                            !.capacity = limitPerMinute,
                            !.refillRatePerSecond =
                                (limitPerMinute * Scale) \div SecondsPerMinute,
                            !.available = Min(@, limitPerMinute * Scale)]
                    ELSE created[key]
    IN [created EXCEPT ![key] = pruneUsageWindow(bucket)]

\* registerLimit: the state of the limiter after the call
RegisterLimitCall(name, limitPerMinute) ==
    IF limitPerMinute <= 0
        THEN UNCHANGED <<buckets, activeKeys, statusTimer, sinceStatus, granted, meter>>
        ELSE LET key == toLowerCase(name)
                 bs == registered(buckets, name, limitPerMinute)
             IN
             /\ buckets' = bs
             /\ granted' = MapSet(granted, key,
                                  IF key \in DOMAIN buckets
                                     THEN granted[key]
                                          - (buckets[key].available - bs[key].available)
                                     ELSE bs[key].available)
             /\ meter' = IF meter.key = key /\ meter.capacity # limitPerMinute
                            THEN NoMeter ELSE meter
             /\ trackActiveKey(key)
             /\ sinceStatus' = 0

\* the for loop of registerProviderLimits, from entry i on: the bucket map
\* and the active keys after it
RECURSIVE registerLoop(_, _, _)
registerLoop(limiter, providers, i) ==
    IF i > Len(providers) THEN limiter
    ELSE LET name == providers[i].name
             limit == providers[i].provider.tokenLimitPerMinute
             key == toLowerCase(name) IN
         IF limit > 0
            THEN registerLoop(
                    [buckets |-> registered(limiter.buckets, name, limit),
                     activeKeys |->
                        IF \E j \in 1..Len(limiter.activeKeys) :
                              limiter.activeKeys[j] = key
                           THEN limiter.activeKeys
                           ELSE Append(limiter.activeKeys, key)],
                    providers, i + 1)
            ELSE registerLoop(limiter, providers, i + 1)

\* registerProviderLimits on a new TokenRateLimiter
registerProviderLimits(providers) ==
    registerLoop([buckets |-> <<>>, activeKeys |-> <<>>], providers, 1)

\* a caller invokes registerLimit
RegisterLimit(name, limitPerMinute) ==
    /\ RegisterLimitCall(name, limitPerMinute)
    /\ UNCHANGED <<pc, sigVars, configVars, tokenVars, rl, timer, req>>

\* emitAllStatuses, the setInterval callback of trackActiveKey
EmitAllStatuses ==
    /\ statusTimer = 0
    /\ statusTimer' = statusTickMs
    /\ buckets' = [k \in DOMAIN buckets |->
                     IF \E i \in 1..Len(activeKeys) : activeKeys[i] = k
                        THEN IF activeKeys[1] = k /\ emits(FALSE)
                                THEN pruneUsageWindow(refillBucket(buckets[k]))
                                ELSE refillBucket(buckets[k])
                        ELSE buckets[k]]
    /\ granted' = [k \in DOMAIN granted |->
                     granted[k] + buckets'[k].available - buckets[k].available]
    /\ sinceStatus' = IF emits(FALSE) THEN 0 ELSE sinceStatus
    /\ UNCHANGED <<pc, sigVars, configVars, tokenVars, activeKeys, rl, timer, meter, req>>

\* the positions of a continuation that waits on a promise which is settled
\* already: it runs as a microtask, before any timer or I/O callback
Microtasks == {"gt_locked", "so_token", "h_admitted"}

\* TickMs milliseconds pass, once the microtask queue is empty
Elapse(ms) ==
    /\ \A p \in Procs : pc[p] \notin Microtasks
    /\ buckets' = [k \in DOMAIN buckets |->
                     [buckets[k] EXCEPT
                        !.sinceRefill = Min(WindowMs, @ + ms),
                        !.usageWindow = [i \in 1..Len(@) |->
                            [@[i] EXCEPT !.age = Min(WindowMs + 1, @ + ms)]]]]
    /\ sinceStatus' = Min(statusIntervalMs, sinceStatus + ms)
    /\ timer' = [p \in Procs |->
                   IF timer[p] = NoTimer THEN NoTimer ELSE Max(0, timer[p] - ms)]
    /\ statusTimer' = IF statusTimer = NoTimer THEN NoTimer
                      ELSE Max(0, statusTimer - ms)
    /\ reloadTimer' = IF reloadTimer = NoTimer THEN NoTimer
                      ELSE Max(0, reloadTimer - ms)
    /\ sinceEvent' = Min(ReloadDebounceMs, sinceEvent + ms)
    /\ meter' = IF meter = NoMeter THEN meter
                ELSE [meter EXCEPT !.elapsedMs = Min(MeterMs + 1, @ + ms)]
    /\ UNCHANGED <<pc, sigVars, currentConfig, loading, burst, reported, tokenVars,
                   activeKeys, rl, granted, req>>

\* the clock advances by one tick
AdvanceTime == Elapse(TickMs)

\* ------------------------------------------------------------ ConfigStore
\* scheduleReload by a mutant that leaves a pending timer running
scheduledKeepsPending(pending) == IF pending = NoTimer THEN ReloadDebounceMs ELSE pending

\* scheduleReload: clearTimeout of the pending timer, then setTimeout
scheduled(pending) == ReloadDebounceMs

\* the watcher reports a write to config.json or its overlay:
\* scheduleReload clears the pending timer and sets a new one
ScheduleReload ==
    /\ reloadTimer' = scheduled(reloadTimer)
    /\ sinceEvent' = 0
    /\ burst' = IF sinceEvent < ReloadDebounceMs THEN Min(MaxBurst, burst + 1) ELSE 1
    /\ UNCHANGED <<pc, sigVars, currentConfig, loading, reported, tokenVars,
                   limiterVars, req>>

\* the timer of scheduleReload fires: reload() runs up to the await of
\* loadConfig
ReloadStart ==
    /\ reloadTimer = 0
    /\ Len(loading) < MaxReloads
    /\ reloadTimer' = NoTimer
    /\ loading' = Append(loading, FALSE)
    /\ UNCHANGED <<pc, sigVars, currentConfig, sinceEvent, burst, reported, tokenVars,
                   limiterVars, req>>

\* the reload() calls still awaiting loadConfig once the i-th of them has
\* settled; when it replaced the snapshot, the calls that started before it
\* have been overtaken
settled(loads, i, replaced) ==
    [j \in 1..(Len(loads) - 1) |->
        IF j < i THEN (loads[j] \/ replaced) ELSE loads[j + 1]]

\* reload: `this.currentConfig = nextConfig`
reloaded(config, nextConfig) == nextConfig

\* loadConfig resolves with the configuration on disk: reload() replaces
\* the snapshot
ReloadResolves(i, nextConfig) ==
    /\ i \in 1..Len(loading)
    /\ loading' = settled(loading, i, TRUE)
    /\ currentConfig' = reloaded(currentConfig, nextConfig)
    /\ reported' = "reloaded"
    /\ UNCHANGED <<pc, sigVars, reloadTimer, sinceEvent, burst, tokenVars, limiterVars, req>>

\* reload by a mutant whose catch block falls back to the built-in defaults
keptOnFailureNever(config) == Config(FALSE, "", <<>>)

\* reload: the catch block logs and keeps the snapshot
keptOnFailure(config) == config

\* loadConfig rejects (a file is missing, is not JSON, or fails the
\* schema): reload() logs and returns
ReloadRejects(i) ==
    /\ i \in 1..Len(loading)
    /\ loading' = settled(loading, i, FALSE)
    /\ currentConfig' = keptOnFailure(currentConfig)
    /\ reported' = "failed"
    /\ UNCHANGED <<pc, sigVars, reloadTimer, sinceEvent, burst, tokenVars, limiterVars, req>>

\* ------------------------------------------------------- resolveProvider
\* startsWithRoutePrefix
startsWithRoutePrefix(pathname, routePrefix) ==
    LET normalizedPath == lowerCased(pathname)
        normalizedPrefix == lowerCased(routePrefix) IN
    IF ~startsWith(normalizedPath, normalizedPrefix) THEN FALSE
    ELSE IF Len(normalizedPath) = Len(normalizedPrefix) THEN TRUE
    ELSE normalizedPath[Len(normalizedPrefix) + 1] = "/"

\* resolveProvider returns null
NoMatch == Entry(None, Provider(<<>>, "", <<>>, FALSE, <<>>, 0))

\* resolveProvider by a mutant that keeps the last provider that matches
replacesMatchAlways(routePrefix, longestMatchLength) == TRUE

\* resolveProvider: the test `routePrefix.length > longestMatchLength`
replacesMatch(routePrefix, longestMatchLength) ==
    Len(routePrefix) > longestMatchLength

\* the for loop of resolveProvider, from entry i on
RECURSIVE resolveLoop(_, _, _, _, _)
resolveLoop(providers, pathname, i, longestMatchLength, match) ==
    IF i > Len(providers) THEN match
    ELSE LET provider == providers[i].provider IN
         IF provider.routePrefix = <<>>
             THEN resolveLoop(providers, pathname, i + 1, longestMatchLength, match)
         ELSE IF ~startsWithRoutePrefix(pathname, provider.routePrefix)
             THEN resolveLoop(providers, pathname, i + 1, longestMatchLength, match)
         ELSE IF replacesMatch(provider.routePrefix, longestMatchLength)
             THEN resolveLoop(providers, pathname, i + 1,
                              Len(provider.routePrefix), providers[i])
         ELSE resolveLoop(providers, pathname, i + 1, longestMatchLength, match)

\* resolveProvider
resolveProvider(providers, pathname) ==
    resolveLoop(providers, pathname, 1, 0, NoMatch)

\* ---------------------------------------------------- prepareRequestBody
\* JSON values, by type
JString(v) == [type |-> "string", v |-> v]
JNumber(v) == [type |-> "number", v |-> v]
JObject(v) == [type |-> "object", v |-> v]
JTrue == [type |-> "boolean", v |-> "true"]
JFalse == [type |-> "boolean", v |-> "false"]
JUndefined == [type |-> "undefined", v |-> ""]

\* a member of a JSON object
Member(key, value) == [key |-> key, value |-> value]

\* the bytes of a request body: nothing at all ("empty"), text that is not
\* JSON ("invalid"), JSON that is not an object ("array"), or a JSON object
\* with its members in the order of the text and its layout (with or
\* without white space between the tokens)
Text(kind, layout, members) ==
    [kind |-> kind, layout |-> layout, members |-> members]

\* payloadForTokenCount: undefined
NoPayload == Text("undefined", "compact", <<>>)

\* obj[key], hasOwnProperty, obj[key] = value, delete obj[key] on the
\* members of an object, which keep their insertion order
hasOwnProperty(members, key) ==
    \E i \in 1..Len(members) : members[i].key = key
getProperty(members, key) ==
    IF hasOwnProperty(members, key)
        THEN members[CHOOSE i \in 1..Len(members) : members[i].key = key].value
        ELSE JUndefined
setProperty(members, key, value) ==
    IF hasOwnProperty(members, key)
        THEN [i \in 1..Len(members) |->
                IF members[i].key = key THEN Member(key, value) ELSE members[i]]
        ELSE Append(members, Member(key, value))
IsNot(member, key) == member.key # key
deleteProperty(members, key) ==
    LET keeps(member) == IsNot(member, key) IN SelectSeq(members, keeps)

\* safeParseJsonObject: whether the text parses to an object
parsesToObject(text) == text.kind = "object"

\* JSON.stringify of an object: its members in insertion order, without
\* white space
stringify(members) == Text("object", "compact", members)

\* contentType.includes("application/json") on the content types the model
\* uses, after toLowerCase
includesJson(contentType) ==
    toLowerCase(contentType) \in
        {"application/json", "application/json; charset=utf-8"}

\* the suffix /chat/completions of a path, written /c
ChatCompletions == <<"/", "c">>

\* the for loop of prepareRequestBody over stripRequestProperties
RECURSIVE stripLoop(_, _, _)
stripLoop(parsed, names, i) ==
    IF i > Len(names) THEN parsed
    ELSE IF names[i] = "" THEN stripLoop(parsed, names, i + 1)
    ELSE stripLoop(deleteProperty(parsed, names[i]), names, i + 1)

\* what prepareRequestBody returns
Prepared(forwardBody, payloadForTokenCount, resolvedModel, bodyWasMutated) ==
    [forwardBody |-> forwardBody, payloadForTokenCount |-> payloadForTokenCount,
     resolvedModel |-> resolvedModel, bodyWasMutated |-> bodyWasMutated]

\* `x || undefined` on a string
orUndefined(x) == IF x = "" THEN None ELSE x

\* prepareRequestBody by a mutant that encodes the parsed object whether or
\* not it was updated
returnsRawBodyNever(updated) == FALSE

\* prepareRequestBody: the test `if (!updated)`
returnsRawBody(updated) == ~updated

\* prepareRequestBody by a mutant that looks the alias up without using it
aliasTargetIgnored(provider, resolvedModel) == resolvedModel

\* prepareRequestBody: the model after the alias lookup
aliasTarget(provider, resolvedModel) ==
    IF resolvedModel # ""
       /\ toLowerCase(resolvedModel) \in DOMAIN provider.modelAliasLookup
        THEN provider.modelAliasLookup[toLowerCase(resolvedModel)]
        ELSE resolvedModel

\* prepareRequestBody, from the resolution of request.arrayBuffer() on
prepareRequestBody(contentType, rawBody, provider, pathname) ==
    LET defaultModel == orUndefined(provider.defaultModel)
        passThrough == Prepared(rawBody, NoPayload, defaultModel, FALSE)
    IN
    IF rawBody.kind = "empty" THEN passThrough
    ELSE IF ~includesJson(contentType) THEN passThrough
    ELSE IF ~parsesToObject(rawBody) THEN passThrough
    ELSE
    LET parsed == rawBody.members
        model == getProperty(parsed, "model")
        currentModel == IF model.type = "string" THEN trim(model.v) ELSE ""
        resolvedModel ==
            aliasTarget(provider,
                        IF currentModel # "" THEN currentModel
                        ELSE provider.defaultModel)
        setsModel == resolvedModel # "" /\ model # JString(resolvedModel)
        withModel == IF setsModel
                        THEN setProperty(parsed, "model", JString(resolvedModel))
                        ELSE parsed
        disableStreaming ==
            provider.disableStreaming
            /\ endsWith(lowerCased(pathname), ChatCompletions)
        setsStream == disableStreaming /\ getProperty(withModel, "stream") # JFalse
        withStream == IF setsStream
                         THEN setProperty(withModel, "stream", JFalse)
                         ELSE withModel
        dropsOptions == disableStreaming /\ hasOwnProperty(withStream, "stream_options")
        withoutOptions == IF dropsOptions
                             THEN deleteProperty(withStream, "stream_options")
                             ELSE withStream
        stripped == stripLoop(withoutOptions, provider.stripRequestProperties, 1)
        updated == setsModel \/ setsStream \/ dropsOptions
                   \/ stripped # withoutOptions
    IN
    IF returnsRawBody(updated)
        THEN Prepared(rawBody, rawBody, orUndefined(resolvedModel), FALSE)
        ELSE Prepared(stringify(stripped), stringify(stripped),
                      orUndefined(resolvedModel), TRUE)

\* the tokens of the o200k_base encoding of a payload, as far as the model
\* tells payloads apart: one for the object, one more for a canonical model
\* name, which is longer than its alias
encode(text) ==
    <<"{}">> \o (IF getProperty(text.members, "model") = JString("canonical-y")
                    THEN <<"-y">> ELSE <<>>)

\* TokenCounter.countTokens
countTokens(text) == Len(encode(text))

\* ------------------------------------------------------- app.all handler
\* a TokenLimitSnapshot, or null
Snapshot(used, available) == [taken |-> TRUE, used |-> used, available |-> available]
NoSnapshot == [taken |-> FALSE, used |-> 0, available |-> 0]

\* getUsageSnapshot: the bucket after pruneUsageWindow
snapshotPrunes(name) ==
    IF toLowerCase(name) \in DOMAIN buckets
        THEN [buckets EXCEPT ![toLowerCase(name)] = pruneUsageWindow(@)]
        ELSE buckets

\* getUsageSnapshot: usage in the trailing window and remaining headroom
getUsageSnapshot(name) ==
    IF toLowerCase(name) \in DOMAIN buckets
        THEN LET bucket == snapshotPrunes(name)[toLowerCase(name)]
                 used == Max(0, bucket.usedInWindow) IN
             Snapshot(used, Max(0, bucket.capacity - used))
        ELSE NoSnapshot

\* the locals of a handler run that has not started
NoRequest ==
    [started |-> FALSE, config |-> Config(FALSE, "", <<>>),
     pathname |-> <<>>, name |-> None, provider |-> NoMatch.provider,
     auth |-> None, contentType |-> None,
     body |-> Text("empty", "compact", <<>>),
     prepared |-> Prepared(Text("empty", "compact", <<>>), NoPayload, None, FALSE),
     tokens |-> 0, snapshot |-> NoSnapshot, forwards |-> 0,
     sentAuth |-> [scheme |-> None, credentials |-> None],
     responses |-> <<>>, outcome |-> None]

\* the authorization header sendOnce puts on the upstream request
Bearer(token) == [scheme |-> "Bearer", credentials |-> token]

\* the inbound authorization header, passed on as it came
Original(auth) == [scheme |-> "inbound", credentials |-> auth]

\* the handler of p rejects or returns: the request is over
HandlerEndsWith(p, frame, outcome) ==
    /\ pc' = [pc EXCEPT ![p] = "done"]
    /\ req' = [req EXCEPT ![p] = [frame EXCEPT !.outcome = outcome]]

HandlerEnds(p, outcome) == HandlerEndsWith(p, req[p], outcome)

\* sendOnce from the header on: proxy() is called with request.signal;
\* frame holds the locals of the handler at the call
ForwardWith(p, frame, authorization) ==
    IF aborted[p]
        THEN HandlerEndsWith(p, frame, "AbortError")
        ELSE /\ pc' = [pc EXCEPT ![p] = "h_proxy"]
             /\ req' = [req EXCEPT ![p] = [frame EXCEPT
                                             !.forwards = @ + 1,
                                             !.sentAuth = authorization]]

Forward(p, authorization) == ForwardWith(p, req[p], authorization)

\* sendOnce(forceRefresh), up to its first await
SendOnce(p, frame, forceRefresh) ==
    IF frame.config.convertToken /\ frame.auth # None
        THEN /\ GetTokenCall(p, frame.auth, forceRefresh, Handler)
             /\ req' = [req EXCEPT ![p] = frame]
             /\ UNCHANGED <<cache, exchanges>>
        ELSE /\ ForwardWith(p, frame, Original(frame.auth))
             /\ UNCHANGED tokenVars

\* the retry rule: `firstResponse.status !== 401 && !== 403` returns
retries(status) == status \in {"401", "403"}

\* app.all: a request arrives; the snapshot is read and the provider
\* resolved, up to the await of request.arrayBuffer() in prepareRequestBody
HandlerStart(p, pathname, auth, contentType, body) ==
    /\ pc[p] = "idle"
    /\ LET config == currentConfig
           providerMatch == resolveProvider(config.providers, pathname)
           frame == [NoRequest EXCEPT !.started = TRUE, !.config = config,
                                      !.pathname = pathname,
                                      !.name = providerMatch.name,
                                      !.provider = providerMatch.provider,
                                      !.auth = auth, !.contentType = contentType,
                                      !.body = body] IN
       IF providerMatch = NoMatch
           THEN /\ pc' = [pc EXCEPT ![p] = "done"]
                /\ req' = [req EXCEPT ![p] = [frame EXCEPT !.outcome = "404"]]
           ELSE /\ pc' = [pc EXCEPT ![p] = "h_body"]
                /\ req' = [req EXCEPT ![p] = frame]
    /\ UNCHANGED <<sigVars, configVars, tokenVars, limiterVars>>

\* app.all: the body has arrived; prepareRequestBody, then rate limiting
\* (up to the await inside waitForTokens) or straight on to sendOnce(false)
HandlerBody(p) ==
    /\ pc[p] = "h_body"
    /\ LET preparedBody == prepareRequestBody(req[p].contentType, req[p].body,
                                              req[p].provider, req[p].pathname)
           limit == req[p].provider.tokenLimitPerMinute
           counts == limit > 0 /\ preparedBody.payloadForTokenCount # NoPayload
           tokens == IF counts THEN countTokens(preparedBody.payloadForTokenCount)
                     ELSE 0
           frame == [req[p] EXCEPT !.prepared = preparedBody, !.tokens = tokens]
       IN
       IF counts
          THEN /\ WaitCall(p, req[p].name, limit, tokens, Handler)
               /\ req' = [req EXCEPT ![p] = frame]
               /\ UNCHANGED tokenVars
       ELSE IF limit > 0
          THEN /\ buckets' = snapshotPrunes(req[p].name)
               /\ SendOnce(p, [frame EXCEPT
                                     !.snapshot = getUsageSnapshot(req[p].name)],
                               FALSE)
               /\ UNCHANGED <<activeKeys, statusTimer, sinceStatus, rl, timer, granted,
                            meter>>
       ELSE /\ SendOnce(p, frame, FALSE)
            /\ UNCHANGED limiterVars
    /\ UNCHANGED <<sigVars, configVars>>

\* the await of waitForTokens by a mutant that catches the rejection and
\* goes on
rethrowsNever(result) == FALSE

\* the await of waitForTokens: a rejection of the call is thrown on to the
\* caller of the handler
rethrows(result) == result = "AbortError"

\* app.all: waitForTokens has settled; getUsageSnapshot and sendOnce(false)
HandlerAdmitted(p) ==
    /\ pc[p] = "h_admitted"
    /\ IF rethrows(rl[p].result)
          THEN /\ HandlerEnds(p, "AbortError")
               /\ UNCHANGED <<tokenVars, buckets>>
          ELSE /\ buckets' = snapshotPrunes(req[p].name)
               /\ SendOnce(p, [req[p] EXCEPT
                                     !.snapshot = getUsageSnapshot(req[p].name)],
                               FALSE)
    /\ UNCHANGED <<sigVars, configVars, activeKeys, statusTimer, sinceStatus,
                   rl, timer, granted, meter>>

\* sendOnce: getToken has settled; set the header and call proxy()
SendOnceToken(p) ==
    /\ pc[p] = "so_token"
    /\ IF gt[p].result \in Errors
          THEN HandlerEnds(p, gt[p].result)
       ELSE IF gt[p].result # None
          THEN Forward(p, Bearer(gt[p].result))
       ELSE Forward(p, Original(req[p].auth))
    /\ UNCHANGED <<sigVars, configVars, tokenVars, limiterVars>>

\* the retry by a mutant that takes the estimate of the request from its
\* bucket again
retriedDeducts(p) ==
    IF rl[p].key \in DOMAIN buckets
        THEN [buckets EXCEPT ![rl[p].key].available = @ - rl[p].tokens * Scale]
        ELSE buckets

\* the retry is `return sendOnce(true)`: it does not go back to
\* waitForTokens, the buckets stay as they are
retried(p) == buckets

\* the upstream provider answers; the handler returns or retries
ProxyResponse(p, status) ==
    /\ pc[p] = "h_proxy"
    /\ LET answered == [req EXCEPT ![p].responses = Append(@, status)] IN
       IF /\ req[p].config.convertToken /\ req[p].auth # None
          /\ Len(req[p].responses) = 0
          /\ retries(status)
          THEN /\ SendOnce(p, answered[p], TRUE)
               /\ buckets' = retried(p)
               /\ UNCHANGED <<activeKeys, statusTimer, sinceStatus, rl, timer, granted,
                              meter>>
          ELSE /\ pc' = [pc EXCEPT ![p] = "done"]
               /\ req' = [answered EXCEPT ![p].outcome = status]
               /\ UNCHANGED <<tokenVars, limiterVars>>
    /\ UNCHANGED <<sigVars, configVars>>

\* the upstream provider cannot be reached: proxy() rejects
ProxyFails(p) ==
    /\ pc[p] = "h_proxy"
    /\ HandlerEnds(p, "TypeError")
    /\ UNCHANGED <<sigVars, configVars, tokenVars, limiterVars>>

\* ------------------------------------------------------------ cancellation
\* sleep by a mutant that never registers onAbort
abortRejectsSleepNever(p) == FALSE

\* sleep: onAbort is registered while the timer of p is pending
abortRejectsSleep(p) == pc[p] = "rl_sleep"

\* fetch: the exchange of p is in flight with signal attached
abortRejectsFetch(p) == pc[p] \in {"gt_fetch", "gt_text"}

\* proxy: the upstream call of p is in flight with signal attached
abortRejectsProxy(p) == pc[p] = "h_proxy"

\* the inbound connection of p is closed: request.signal fires, and the
\* listeners registered on it run
Cancel(p) ==
    /\ pc[p] \notin {"idle", "done"}
    /\ ~aborted[p]
    /\ aborted' = [aborted EXCEPT ![p] = TRUE]
    /\ abortedAt' = [abortedAt EXCEPT ![p] = pc[p]]
    /\ IF abortRejectsSleep(p)
          THEN /\ rl' = [rl EXCEPT ![p].result = "AbortError"]
               /\ timer' = [timer EXCEPT ![p] = NoTimer]
               /\ pc' = [pc EXCEPT ![p] = AfterWait(rl[p].caller)]
               /\ UNCHANGED <<tokenVars, buckets, activeKeys, statusTimer,
                              sinceStatus, granted, meter, req>>
       ELSE IF abortRejectsFetch(p)
          THEN /\ GetTokenSettle(p, "AbortError")
               /\ UNCHANGED <<cache, exchanges, limiterVars, req>>
       ELSE IF abortRejectsProxy(p)
          THEN /\ HandlerEnds(p, "AbortError")
               /\ UNCHANGED <<tokenVars, limiterVars>>
       ELSE UNCHANGED <<pc, tokenVars, limiterVars, req>>
    /\ UNCHANGED configVars

\* ------------------------------------------------------------------ specs
\* the state after construction of the services, under the snapshot config
InitWith(config) ==
    /\ pc = [p \in Procs |-> "idle"]
    /\ aborted = [p \in Procs |-> FALSE]
    /\ abortedAt = [p \in Procs |-> None]
    /\ currentConfig = config
    /\ reloadTimer = NoTimer
    /\ loading = <<>>
    /\ sinceEvent = ReloadDebounceMs
    /\ burst = 0
    /\ reported = None
    /\ cache = <<>>
    /\ locks = <<>>
    /\ gt = [p \in Procs |-> NoFrame]
    /\ exchanges = [k \in Keys |-> 0]
    /\ buckets = <<>>
    /\ activeKeys = <<>>
    /\ statusTimer = NoTimer
    /\ sinceStatus = statusIntervalMs
    /\ rl = [p \in Procs |-> NoWait]
    /\ timer = [p \in Procs |-> NoTimer]
    /\ granted = <<>>
    /\ meter = NoMeter
    /\ req = [p \in Procs |-> NoRequest]

\* the state after startup under the snapshot config: the services are
\* constructed and registerProviderLimits has run
InitProxy(config) ==
    LET limiter == registerProviderLimits(config.providers) IN
    /\ pc = [p \in Procs |-> "idle"]
    /\ aborted = [p \in Procs |-> FALSE]
    /\ abortedAt = [p \in Procs |-> None]
    /\ currentConfig = config
    /\ reloadTimer = NoTimer
    /\ loading = <<>>
    /\ sinceEvent = ReloadDebounceMs
    /\ burst = 0
    /\ reported = None
    /\ cache = <<>>
    /\ locks = <<>>
    /\ gt = [p \in Procs |-> NoFrame]
    /\ exchanges = [k \in Keys |-> 0]
    /\ buckets = limiter.buckets
    /\ activeKeys = limiter.activeKeys
    /\ statusTimer = IF limiter.activeKeys = <<>> THEN NoTimer ELSE statusTickMs
    /\ sinceStatus = IF limiter.activeKeys = <<>> THEN statusIntervalMs ELSE 0
    /\ rl = [p \in Procs |-> NoWait]
    /\ timer = [p \in Procs |-> NoTimer]
    /\ granted = [k \in DOMAIN limiter.buckets |-> limiter.buckets[k].available]
    /\ meter = NoMeter
    /\ req = [p \in Procs |-> NoRequest]

\* TokenService alone: callers of getToken
InitToken ==
    \E config \in Configs :
        /\ config.convertToken /\ limitOf(config) = 0
        /\ InitWith(config)

NextToken ==
    \/ \E p \in Procs, k \in Keys, f \in BOOLEAN : StartGetToken(p, k, f)
    \/ \E p \in Procs : GetTokenLocked(p)
    \/ \E p \in Procs, ok \in BOOLEAN : FetchResponse(p, ok)
    \/ \E p \in Procs, json \in BOOLEAN, body \in TokenBodies : FetchBody(p, json, body)
    \/ \E p \in Procs : FetchFails(p)
    \/ \E p \in Procs : Cancel(p)

SpecToken == InitToken /\ [][NextToken]_vars

\* TokenRateLimiter alone: callers of waitForTokens and registerLimit
InitLimiter ==
    \E config \in Configs :
        /\ config.convertToken /\ limitOf(config) = 0
        /\ config.tokenEndpoint = ""
        /\ InitWith(config)

NextLimiter ==
    \/ \E p \in Procs, name \in ProviderNames, l \in Limits, n \in TokenCounts :
          StartWait(p, name, l, n)
    \/ \E p \in Procs : WaitWake(p)
    \/ \E name \in ProviderNames, l \in Limits : RegisterLimit(name, l)
    \/ EmitAllStatuses
    \/ AdvanceTime
    \/ \E p \in Procs : Cancel(p)

SpecLimiter == InitLimiter /\ [][NextLimiter]_vars

\* TokenRateLimiter with callers of waitForTokens only, under the
\* scheduling the runtime guarantees: the clock advances and a timer
\* that is due runs its callback
NextWaiters ==
    \/ \E p \in Procs, name \in ProviderNames, l \in Limits, n \in TokenCounts :
          StartWait(p, name, l, n)
    \/ \E p \in Procs : WaitWake(p)
    \/ EmitAllStatuses
    \/ AdvanceTime
    \/ \E p \in Procs : Cancel(p)

\* the paths of inbound requests: chat completions under the route prefix
\* of "Kepler" in upper case, and a path under no route prefix
RequestPaths == {<<"/", "A", "/", "c">>, <<"/", "c">>}

\* a chat request that names its model by alias
AliasBody == Text("object", "pretty", <<Member("model", JString("alias-x"))>>)

\* the proxy with rate limiting switched off: the state after startup under
\* a snapshot in which no provider has a tokenLimitPerMinute
InitAuth ==
    \E config \in Configs :
        /\ limitOf(config) = 0 /\ config.tokenEndpoint # ""
        /\ InitWith(config)

\* inbound requests through the app.all handler
NextAuth ==
    \/ \E p \in Procs, pathname \in RequestPaths, auth \in Keys \cup {None},
          body \in {Text("empty", "compact", <<>>), AliasBody} :
          HandlerStart(p, pathname, auth, "application/json", body)
    \/ \E p \in Procs : HandlerBody(p)
    \/ \E p \in Procs : SendOnceToken(p)
    \/ \E p \in Procs, status \in Statuses : ProxyResponse(p, status)
    \/ \E p \in Procs : ProxyFails(p)
    \/ \E p \in Procs : GetTokenLocked(p)
    \/ \E p \in Procs, ok \in BOOLEAN : FetchResponse(p, ok)
    \/ \E p \in Procs, json \in BOOLEAN, body \in TokenBodies : FetchBody(p, json, body)
    \/ \E p \in Procs : FetchFails(p)
    \/ \E p \in Procs : Cancel(p)

SpecAuth == InitAuth /\ [][NextAuth]_vars

\* paths and normalized route prefixes: they start with a slash
RouteChars == {"/", "a", "A"}
RoutePaths == {s \in StringsUpTo(RouteChars, MaxPathLen) : Len(s) >= 1 /\ s[1] = "/"}

\* provider tables of up to two providers
RouteTables ==
    {<<>>}
    \cup {<<Entry("Kepler", Provider(r, "", <<>>, FALSE, <<>>, 0))>> : r \in RoutePaths}
    \cup {<<Entry("Kepler", Provider(r1, "", <<>>, FALSE, <<>>, 0)),
            Entry("kepler", Provider(r2, "", <<>>, FALSE, <<>>, 0))>> :
             r1 \in RoutePaths, r2 \in RoutePaths}

\* routing alone: one request arrives under some provider table
InitRoute ==
    \E providers \in RouteTables :
        InitWith(Config(FALSE, "https://idp/token", providers))

NextRoute ==
    \E pathname \in RoutePaths :
        HandlerStart(1, pathname, None, None, Text("empty", "compact", <<>>))

SpecRoute == InitRoute /\ [][NextRoute]_vars

\* request bodies: no bytes, text that is not JSON, JSON that is not an
\* object, and objects with or without each of the members model, stream,
\* stream_options and max_tokens, model first or last, in both layouts
ModelValues ==
    {JString("canonical-y"), JString("alias-x"), JString("Alias-X"),
     JString(" canonical-y "), JString("  "), JNumber("7")}
OptionalMember(key, values) == {<<>>} \cup {<<Member(key, v)>> : v \in values}
OtherMembers ==
    {stream \o options \o maxTokens :
        stream \in OptionalMember("stream", {JTrue, JFalse}),
        options \in OptionalMember("stream_options", {JObject("{}")}),
        maxTokens \in OptionalMember("max_tokens", {JNumber("7")})}
MemberLists ==
    {model \o others : model \in OptionalMember("model", ModelValues),
                       others \in OtherMembers}
    \cup {others \o model : model \in OptionalMember("model", ModelValues),
                            others \in OtherMembers}
Bodies ==
    {Text("empty", "compact", <<>>), Text("invalid", "compact", <<>>),
     Text("array", "compact", <<>>)}
    \cup {Text("object", layout, members) :
            layout \in {"compact", "pretty"}, members \in MemberLists}

\* content-type headers of requests (None: no header)
ContentTypes == {None, "text/plain", "application/json", "Application/JSON"}

\* paths under the route prefix of "Kepler": chat completions and another
BodyPaths == {<<"/", "a", "/", "C">>, <<"/", "a", "/", "a">>}

\* provider settings that prepareRequestBody reads
BodyProviders ==
    {Provider(KeplerRoute, defaultModel, aliases, disableStreaming, strip, 0) :
        defaultModel \in {"", "canonical-y"},
        aliases \in {<<>>, KeplerAliases},
        disableStreaming \in BOOLEAN,
        strip \in {<<>>, <<"", "max_tokens">>}}

\* body transformation alone: one request arrives with some body for the
\* one provider of the snapshot
InitBody ==
    \E provider \in BodyProviders :
        InitWith(Config(FALSE, "https://idp/token", <<Entry("Kepler", provider)>>))

NextBody ==
    \/ \E pathname \in BodyPaths, contentType \in ContentTypes, body \in Bodies :
          HandlerStart(1, pathname, None, contentType, body)
    \/ HandlerBody(1)

SpecBody == InitBody /\ [][NextBody]_vars

\* a limit of one token per second (limitPerMinute = 60), and the token
\* counts asked of it: the whole limit, or half of it
DrainLimit == SecondsPerMinute
DrainCounts == {DrainLimit \div 2, DrainLimit}

\* TokenRateLimiter with callers of waitForTokens under the one limit
\* DrainLimit
NextDrain ==
    \/ \E p \in Procs, n \in DrainCounts : StartWait(p, "kepler", DrainLimit, n)
    \/ \E p \in Procs : WaitWake(p)
    \/ EmitAllStatuses
    \/ AdvanceTime
    \/ \E p \in Procs : Cancel(p)

SpecDrain == InitLimiter /\ [][NextDrain]_vars

\* token endpoints a load can produce: mapProxyConfig never leaves it blank
LoadedEndpoints == {"https://idp/token", "https://idp.next/token"}

\* the snapshots loadConfig produces from the two versions of config.json:
\* the proxy forwards the inbound credentials, and the versions differ in
\* the token endpoint and in the limit of "Kepler"
StoreConfigs ==
    {Config(FALSE, "https://idp/token", <<Kepler(MaxTokens)>>),
     Config(FALSE, "https://idp.next/token", <<Kepler(1)>>)}

\* a chat request without a model
PlainBody == Text("object", "compact", <<>>)

\* the path of chat completions under the route prefix of "Kepler"
KeplerChat == <<"/", "a", "/", "c">>

\* the proxy after startup under either version
InitStore == \E config \in StoreConfigs : InitProxy(config)

\* the requests the store is followed with: one that is in flight while the
\* configuration files change, and one that arrives after it
Earlier == 1
Later == 2
Followed == {Earlier, Later}

\* the proxy with its ConfigStore watching the configuration files
NextStore ==
    \/ ScheduleReload
    \/ ReloadStart
    \/ \E i \in 1..MaxReloads, nextConfig \in StoreConfigs : ReloadResolves(i, nextConfig)
    \/ \E i \in 1..MaxReloads : ReloadRejects(i)
    \/ HandlerStart(Earlier, KeplerChat, None, "application/json", PlainBody)
    \/ /\ pc[Earlier] # "idle"
       /\ HandlerStart(Later, KeplerChat, None, "application/json", PlainBody)
    \/ \E p \in Followed : HandlerBody(p)
    \/ \E p \in Followed : WaitWake(p)
    \/ \E p \in Followed : HandlerAdmitted(p)
    \/ \E p \in Followed : ProxyResponse(p, "200")
    \/ EmitAllStatuses
    \/ AdvanceTime

SpecStore == InitStore /\ [][NextStore]_vars

\* the snapshots loadConfig produces from two versions of config.json that
\* differ in the token endpoint: the proxy converts tokens and limits no
\* provider
ExchangeConfigs == {Config(TRUE, e, <<Kepler(0)>>) : e \in LoadedEndpoints}

InitExchange == \E config \in ExchangeConfigs : InitProxy(config)

\* a request that carries credentials, while the ConfigStore reloads
NextExchange ==
    \/ ScheduleReload
    \/ ReloadStart
    \/ \E i \in 1..MaxReloads, nextConfig \in ExchangeConfigs : ReloadResolves(i, nextConfig)
    \/ \E i \in 1..MaxReloads : ReloadRejects(i)
    \/ \E auth \in Keys :
          HandlerStart(Earlier, KeplerChat, auth, "application/json", PlainBody)
    \/ HandlerBody(Earlier)
    \/ GetTokenLocked(Earlier)
    \/ \E ok \in BOOLEAN : FetchResponse(Earlier, ok)
    \/ \E json \in BOOLEAN, body \in TokenBodies : FetchBody(Earlier, json, body)
    \/ SendOnceToken(Earlier)
    \/ \E status \in Statuses : ProxyResponse(Earlier, status)
    \/ AdvanceTime

SpecExchange == InitExchange /\ [][NextExchange]_vars

\* the snapshots under which "Kepler" is rate limited and the inbound
\* credentials are forwarded
LimitedConfigs ==
    {Config(FALSE, "https://idp/token", <<Kepler(limit)>>) : limit \in Limits \ {0}}

\* request bodies: none, a chat request without a model, and one that
\* names its model by alias
LimitedBodies == {Text("empty", "compact", <<>>), PlainBody, AliasBody}

InitLimited == \E config \in LimitedConfigs : InitProxy(config)

\* requests to a rate-limited provider through the app.all handler
NextLimited ==
    \/ \E p \in Followed, body \in LimitedBodies :
          HandlerStart(p, KeplerChat, None, "application/json", body)
    \/ \E p \in Followed : HandlerBody(p)
    \/ \E p \in Followed : WaitWake(p)
    \/ \E p \in Followed : HandlerAdmitted(p)
    \/ \E p \in Followed : ProxyResponse(p, "200")
    \/ \E p \in Followed : Cancel(p)
    \/ EmitAllStatuses
    \/ AdvanceTime

SpecLimited == InitLimited /\ [][NextLimited]_vars

\* the snapshots under which "Kepler" is rate limited and the inbound
\* credentials are exchanged for tokens
PipelineConfigs ==
    {Config(TRUE, "https://idp/token", <<Kepler(limit)>>) : limit \in Limits \ {0}}

InitPipeline == \E config \in PipelineConfigs : InitProxy(config)

\* requests that run through every stage of the app.all handler
NextPipeline ==
    \/ \E p \in Followed :
          HandlerStart(p, KeplerChat, "Bearer k1", "application/json", AliasBody)
    \/ \E p \in Followed : HandlerBody(p)
    \/ \E p \in Followed : WaitWake(p)
    \/ \E p \in Followed : HandlerAdmitted(p)
    \/ \E p \in Followed : GetTokenLocked(p)
    \/ \E p \in Followed, ok \in BOOLEAN : FetchResponse(p, ok)
    \/ \E p \in Followed : FetchBody(p, FALSE, [raw |-> "tokA", tokenProp |-> None])
    \/ \E p \in Followed : SendOnceToken(p)
    \/ \E p \in Followed, status \in {"200", "401"} : ProxyResponse(p, status)
    \/ Cancel(Later)
    \/ EmitAllStatuses
    \/ AdvanceTime

SpecPipeline == InitPipeline /\ [][NextPipeline]_vars

\* ------------------------------------------------------ ConfigStore claims
\* C12: the snapshot getConfig returns is always one that a load produced,
\* whole; a reload that fails reports the failure, keeps the snapshot and
\* touches no request; and the snapshot changes only in the step in which
\* a load succeeds, to what was loaded
C12_FailedReloadKeepsSnapshot ==
    /\ currentConfig \in StoreConfigs
    /\ [][/\ currentConfig' \in StoreConfigs
          /\ (\E i \in 1..MaxReloads : ReloadRejects(i)) =>
                /\ currentConfig' = currentConfig
                /\ reported' = "failed"
                /\ pc' = pc /\ req' = req /\ rl' = rl /\ gt' = gt
          /\ currentConfig' # currentConfig =>
                \E i \in 1..MaxReloads, nextConfig \in StoreConfigs :
                    ReloadResolves(i, nextConfig) /\ currentConfig' = nextConfig]_vars

\* C12: a reload has failed while a request was being handled under the
\* snapshot in effect
C12_Witness ==
    /\ reported = "failed"
    /\ pc[Earlier] = "h_proxy"
    /\ req[Earlier].config = currentConfig

\* the requests that the limiter let through against the bucket of their
\* provider
AdmittedByBucket ==
    {p \in Procs : /\ req[p].started
                   /\ pc[p] = "h_admitted"
                   /\ rl[p].result = "admitted"}

\* C14: a request is admitted against a bucket whose capacity and refill
\* rate are those of the tokenLimitPerMinute in the snapshot the request
\* read, also when that snapshot was loaded after startup
C14_NewLimitGoverns ==
    \A p \in AdmittedByBucket :
        LET limit == req[p].provider.tokenLimitPerMinute
            bucket == buckets[toLowerCase(req[p].name)] IN
        /\ bucket.capacity = limit
        /\ bucket.refillRatePerSecond = (limit * Scale) \div SecondsPerMinute

\* the requests whose token exchange is under way
Exchanging ==
    {p \in Procs : /\ req[p].started
                   /\ gt[p].caller = Handler
                   /\ pc[p] \in {"gt_fetch", "gt_text"}}

\* C13: whatever a request uses of the configuration comes from the one
\* snapshot it read on arrival: the provider it resolved, and the token
\* endpoint its exchange is sent to, on the first attempt and on the retry
C13_OneSnapshotPerRequest ==
    /\ \A p \in Procs :
          req[p].started =>
             /\ req[p].config \in ExchangeConfigs
             /\ resolveProvider(req[p].config.providers, req[p].pathname).provider
                    = req[p].provider
    /\ \A p \in Exchanging : gt[p].endpoint = req[p].config.tokenEndpoint

\* ---------------------------------------------------- usage snapshot claims
\* the requests to a rate-limited provider that were forwarded upstream
ForwardedLimited ==
    {p \in Procs : /\ req[p].started
                   /\ req[p].forwards > 0
                   /\ req[p].provider.tokenLimitPerMinute > 0}

\* C17 as stated: the snapshot of every request to a rate-limited provider
\* counts the tokens of that request as used
C17_SnapshotCountsOwnTokens ==
    \A p \in ForwardedLimited :
        /\ req[p].snapshot.taken
        /\ req[p].snapshot.used >= req[p].tokens

\* C17: every request to a rate-limited provider gets a snapshot, taken
\* once the limiter has let it pass; when the limiter admitted it against
\* the bucket, used includes the tokens of the request and available
\* excludes them
C17_SnapshotCountsAdmittedTokens ==
    \A p \in ForwardedLimited :
        /\ req[p].snapshot.taken
        /\ rl[p].result \in {None, "admitted", "unthrottled"}
        /\ rl[p].result = "admitted" =>
              /\ rl[p].deducted = req[p].tokens
              /\ req[p].snapshot.used >= req[p].tokens
              /\ req[p].snapshot.available
                    <= buckets[toLowerCase(req[p].name)].capacity - req[p].tokens

\* C17: two requests were admitted against the bucket, and the snapshot of
\* the second counts the tokens of both
C17_Witness ==
    \E p, q \in ForwardedLimited :
        /\ p # q
        /\ rl[p].result = "admitted" /\ rl[q].result = "admitted"
        /\ req[p].tokens > 0 /\ req[q].tokens > 0
        /\ req[q].snapshot.used = req[p].tokens + req[q].tokens

FairSpecWaiters ==
    /\ InitLimiter /\ [][NextWaiters]_vars
    /\ WF_vars(AdvanceTime)
    /\ \A p \in Procs : WF_vars(WaitWake(p))

\* ------------------------------------------------------- TokenService claims
\* the calls whose outbound token exchange is in flight for a key
InFlight(k) == {p \in Procs : pc[p] \in {"gt_fetch", "gt_text"} /\ gt[p].key = k}

\* the calls that own the lock of a key: granted and not yet settled
Holders(k) ==
    {p \in Procs : pc[p] \in {"gt_locked", "gt_fetch", "gt_text"} /\ gt[p].key = k}

\* the calls on a key that have settled
Settled(k) == {p \in Procs : pc[p] = "done" /\ gt[p].key = k}

IsToken(r) == r \notin {None} \cup Errors

\* C1: for every credential key at most one outbound token exchange is in
\* flight at any time, whatever mix of forced and non-forced calls runs
C1_OneExchangeInFlight == \A k \in Keys : Cardinality(InFlight(k)) <= 1

\* C1 witness: an exchange is in flight for a key while a forced call on
\* the same key waits in the lock's queue
C1_Witness ==
    \E k \in Keys, p, q \in Procs :
        /\ p \in InFlight(k)
        /\ pc[q] = "gt_queued" /\ gt[q].key = k /\ gt[q].force

\* every call made so far on key k was a non-forced one, and all of them
\* have been made
AllNonForcedOn(k) ==
    \A p \in Procs : pc[p] # "idle" /\ gt[p].key = k /\ ~gt[p].force

\* C2 as stated: N non-forced calls on one uncached credential make exactly
\* one outbound exchange and all return the same token
C2_ExactlyOneExchange ==
    \A k \in Keys :
        (AllNonForcedOn(k) /\ Settled(k) = Procs) =>
            /\ exchanges[k] = 1
            /\ \A p, q \in Procs : gt[p].result = gt[q].result
                                   /\ IsToken(gt[p].result)

\* C2 amended: among non-forced calls on one uncached credential, every
\* call that returns a token returns the cached one, no exchange is made
\* once a token is cached, and each outbound exchange beyond the first is
\* preceded by a call that ended without a token
C2_OneExchangePerSuccess ==
    \A k \in Keys :
        (\A p \in Procs : gt[p].key = k => ~gt[p].force) =>
            LET failed == {p \in Settled(k) : ~IsToken(gt[p].result)}
                gotten == {p \in Settled(k) : IsToken(gt[p].result)} IN
            /\ \A p \in gotten : gt[p].result = cachedToken(k)
            /\ exchanges[k] <= 1 + Cardinality(failed)
            /\ (failed = {} /\ gotten # {}) => exchanges[k] = 1
            /\ cachedToken(k) # None => InFlight(k) = {}

\* C2 witness: every process called getToken non-forced on the same key,
\* one exchange was made and all of them returned its token
C2_Witness ==
    \E k \in Keys :
        /\ AllNonForcedOn(k) /\ Settled(k) = Procs
        /\ exchanges[k] = 1
        /\ \A p \in Procs : IsToken(gt[p].result)

\* C6: whenever no getToken call on a key is between lock acquisition and
\* completion, the key's lock is unlocked and nobody is left in its queue
C6_LockReleased ==
    \A k \in DOMAIN locks :
        Holders(k) = {} => ~locks[k].locked /\ locks[k].queue = <<>>

\* C6 witness: calls on one key ended by a failed exchange and by a
\* cancellation, and the key's lock is free again
C6_Witness ==
    \E k \in DOMAIN locks, p, q \in Procs :
        /\ pc[p] = "done" /\ gt[p].key = k /\ gt[p].result = "AbortError"
        /\ pc[q] = "done" /\ gt[q].key = k /\ gt[q].result = "TypeError"
        /\ ~locks[k].locked

\* C7: a call cancelled while queued for the lock ends with a cancellation
\* error there: it never owns the lock, never has an exchange in flight
\* and never returns a token
C7_CancelledWaiterLeavesQueue ==
    \A p \in Procs :
        abortedAt[p] = "gt_queued" =>
            /\ pc[p] \notin {"gt_locked", "gt_fetch", "gt_text"}
            /\ pc[p] = "done" => gt[p].result = "AbortError"

\* --------------------------------------------------- TokenRateLimiter claims
\* the tokens deducted so far by the calls of the set S from bucket k
RECURSIVE DeductedBy(_, _)
DeductedBy(S, k) ==
    IF S = {} THEN 0
    ELSE LET p == CHOOSE q \in S : TRUE IN
         (IF rl[p].key = k THEN rl[p].deducted ELSE 0) + DeductedBy(S \ {p}, k)

\* the calls admitted through bucket k
AdmittedOn(k) == {p \in Procs : rl[p].key = k /\ rl[p].result = "admitted"}

\* C3: for every bucket the tokens deducted by all waiters together never
\* exceed what the bucket was created with plus what was refilled, and the
\* bucket never goes below zero
C3_NoDoubleAdmission ==
    \A k \in DOMAIN buckets :
        /\ DeductedBy(Procs, k) * Scale <= granted[k]
        /\ buckets[k].available = granted[k] - DeductedBy(Procs, k) * Scale
        /\ buckets[k].available >= 0

\* C3 witness: of two waiters on one bucket, one was admitted against
\* tokens that would have covered the other as well, and the other sleeps
C3_Witness ==
    \E k \in DOMAIN buckets, p, q \in Procs :
        /\ p # q /\ rl[p].key = k /\ rl[q].key = k
        /\ rl[p].result = "admitted" /\ pc[q] = "rl_sleep"
        /\ buckets[k].available < rl[q].tokens * Scale
        /\ buckets[k].available + rl[p].deducted * Scale >= rl[q].tokens * Scale

\* C8: a call with limitPerMinute <= 0, tokens <= 0 or tokens >
\* limitPerMinute returns in the step that makes it, without sleeping, and
\* leaves buckets, active keys and timers as they were
C8_EscapeLeavesBuckets ==
    [][\A p \in Procs :
        (/\ pc[p] = "idle" /\ pc'[p] # "idle"
         /\ \/ rl'[p].limitPerMinute <= 0
            \/ rl'[p].tokens <= 0
            \/ rl'[p].tokens > rl'[p].limitPerMinute)
        => /\ pc'[p] = "done"
           /\ rl'[p].result = "unthrottled" /\ rl'[p].deducted = 0
           /\ buckets' = buckets /\ activeKeys' = activeKeys
           /\ timer' = timer /\ statusTimer' = statusTimer]_vars

\* C8 witness: a call asking for more than its limit returned unthrottled
\* while the bucket of its key is fully drained
C8_Witness ==
    \E p \in Procs :
        /\ pc[p] = "done" /\ rl[p].result = "unthrottled"
        /\ rl[p].limitPerMinute > 0 /\ rl[p].tokens > rl[p].limitPerMinute
        /\ rl[p].key \in DOMAIN buckets
        /\ buckets[rl[p].key].available = 0

\* C9: every call that sleeps in waitForTokens and is not cancelled is
\* eventually admitted
C9_EventuallyAdmitted ==
    \A p \in Procs :
        (pc[p] = "rl_sleep") ~> (rl[p].result = "admitted" \/ aborted[p])

\* C10: a waiter whose signal fired while it slept has left waitForTokens
\* with the cancellation error, has deducted nothing, and no bucket holds
\* more usage samples than calls were admitted through it
C10_CancelledSleeperNeverAdmitted ==
    /\ \A p \in Procs :
          abortedAt[p] = "rl_sleep" =>
              /\ pc[p] = "done"
              /\ rl[p].result = "AbortError"
              /\ rl[p].deducted = 0
    /\ \A k \in DOMAIN buckets :
          /\ Len(buckets[k].usageWindow) <= Cardinality(AdmittedOn(k))
          /\ buckets[k].usedInWindow <= DeductedBy(Procs, k)

\* C10 witness: a waiter was cancelled in its sleep, and afterwards the
\* bucket it waited on has refilled enough to cover its request
C10_Witness ==
    \E p \in Procs :
        /\ abortedAt[p] = "rl_sleep" /\ pc[p] = "done"
        /\ rl[p].key \in DOMAIN buckets
        /\ canAdmit(refillBucket(buckets[rl[p].key]), rl[p].tokens)

\* ------------------------------------------------------------ handler claims
\* the requests whose handler has ended without their signal having fired
Completed == {p \in Procs : pc[p] = "done" /\ req[p].started /\ ~aborted[p]}

\* the retry condition of the handler for request p
RetryDue(p) ==
    /\ req[p].config.convertToken
    /\ req[p].auth # None
    /\ Len(req[p].responses) >= 1
    /\ req[p].responses[1] \in {"401", "403"}

\* C4: a request that got a first response is forwarded a second time
\* exactly when conversion is on, it carries an authorization header and
\* the first status is 401 or 403; the second attempt takes its token with
\* forceRefresh = true; no request is forwarded more than twice; and the
\* second response is the final one
C4_RetryOnceOnAuthFailure ==
    /\ \A p \in Procs : req[p].forwards <= 2
    /\ \A p \in Procs :
          req[p].forwards = 2 => RetryDue(p) /\ gt[p].force
    /\ \A p \in Completed :
          /\ Len(req[p].responses) >= 1 =>
                (req[p].forwards = 2 <=> RetryDue(p))
          /\ Len(req[p].responses) = 2 => req[p].outcome = req[p].responses[2]
          /\ (Len(req[p].responses) = 1 /\ req[p].responses[1] \in {"200", "500"})
                => req[p].forwards = 1 /\ req[p].outcome = req[p].responses[1]

\* the requests whose last getToken call has settled without a token
ExchangeFailed ==
    {p \in Procs : /\ req[p].started /\ gt[p].caller = Handler
                   /\ pc[p] \in {"so_token", "h_proxy", "done"}
                   /\ ~IsToken(gt[p].result)}

\* C5: when the exchange of a request that was not cancelled fails,
\* getToken yields none, the request is forwarded with the inbound
\* authorization header, and it does not end with the exchange's error
C5_ExchangeFailsOpen ==
    \A p \in ExchangeFailed :
        ~aborted[p] =>
            /\ gt[p].result = None
            /\ pc[p] \in {"h_proxy", "done"} =>
                  /\ req[p].forwards >= 1
                  /\ req[p].sentAuth = Original(req[p].auth)

\* ------------------------------------------------- independence claims
\* C15: a getToken call that waits in a lock's queue waits for a call that
\* holds the lock of the same credential; a lock held or an exchange in
\* flight for another credential never makes it wait
C15_OtherKeysNeverBlock ==
    \A p \in Procs :
        pc[p] = "gt_queued" =>
            /\ \E q \in Holders(gt[p].key) : q # p
            /\ \E i \in 1..Len(locks[gt[p].key].queue) :
                  locks[gt[p].key].queue[i] = p

\* C15 witness: exchanges are in flight for two different credentials at
\* the same time
C15_Witness ==
    \E p, q \in Procs :
        /\ pc[p] = "gt_fetch" /\ pc[q] \in {"gt_fetch", "gt_text"}
        /\ gt[p].key # gt[q].key

\* the bucket the limiter uses for a provider name (none: empty sequence)
bucketFor(name) ==
    IF toLowerCase(name) \in DOMAIN buckets
        THEN <<buckets[toLowerCase(name)]>> ELSE <<>>

\* C16: a waitForTokens or registerLimit call on one provider name leaves
\* the bucket of every other provider name as it was (available tokens,
\* capacity, usage window), provider names being case-sensitive
C16_NamesHaveOwnBuckets ==
    [][\A a, b \in ProviderNames :
        (/\ a # b
         /\ \/ \E p \in Procs, l \in Limits, n \in TokenCounts : StartWait(p, a, l, n)
            \/ \E l \in Limits : RegisterLimit(a, l))
        => bucketFor(b)' = bucketFor(b)]_vars

\* ------------------------------------------------------- wait computation
\* the samples of a bucket's usage window for DrainLimit tokens that were
\* recorded less than a window ago
RecentFullSamples(bucket) ==
    {i \in 1..Len(bucket.usageWindow) :
        /\ bucket.usageWindow[i].tokens = DrainLimit
        /\ bucket.usageWindow[i].age < WindowMs}

\* C11: with limitPerMinute = 60 a request for 60 tokens on a fresh bucket
\* is admitted in the step that makes it; a waiter that is put to sleep
\* sleeps deficit / refillRatePerSecond rounded up to a millisecond and at
\* least 10 ms, which is 60 s for 60 tokens on the drained bucket; and two
\* admissions of 60 tokens are never less than 60 s apart
C11_DrainThenWait ==
    [][\A p \in Procs :
        /\ (/\ pc[p] = "idle" /\ pc'[p] # "idle"
            /\ "kepler" \notin DOMAIN buckets
            /\ rl'[p].tokens = DrainLimit)
           => /\ rl'[p].result = "admitted" /\ pc'[p] = "done"
              /\ buckets'["kepler"].available = 0
        /\ (pc'[p] = "rl_sleep" /\ timer'[p] > timer[p])
           => LET bucket == buckets'[rl'[p].key]
                  deficit == rl'[p].tokens * Scale - bucket.available
                  rate == bucket.refillRatePerSecond \div MsPerSecond
              IN /\ timer'[p] >= MinDelayMs
                 /\ timer'[p] * rate >= deficit
                 /\ \/ timer'[p] = MinDelayMs
                    \/ (timer'[p] - 1) * rate < deficit
                 /\ (bucket.available = 0 /\ rl'[p].tokens = DrainLimit)
                       => timer'[p] = WindowMs
        /\ \A k \in DOMAIN buckets' :
              Cardinality(RecentFullSamples(buckets'[k])) <= 1]_vars

\* C11 witness: the second request for 60 tokens has been admitted, exactly
\* one window after the first
C11_Witness ==
    \E p, q \in Procs :
        /\ p # q /\ pc[p] = "done" /\ pc[q] = "done"
        /\ rl[p].result = "admitted" /\ rl[q].result = "admitted"
        /\ rl[p].tokens = DrainLimit /\ rl[q].tokens = DrainLimit
        /\ "kepler" \in DOMAIN buckets
        /\ Len(buckets["kepler"].usageWindow) = 2
        /\ buckets["kepler"].usageWindow[1].age = WindowMs
        /\ buckets["kepler"].usageWindow[2].age = 0

\* ------------------------------------------------------------- routing
\* a route prefix matches a path: it is a prefix of the path without regard
\* to case, followed by the end of the path or a slash
Matches(pathname, routePrefix) ==
    /\ Len(routePrefix) <= Len(pathname)
    /\ \A i \in 1..Len(routePrefix) :
          toLowerCase(pathname[i]) = toLowerCase(routePrefix[i])
    /\ \/ Len(pathname) = Len(routePrefix)
       \/ pathname[Len(routePrefix) + 1] = "/"

\* the entries of a provider table whose route prefix matches a path
Matching(providers, pathname) ==
    {i \in 1..Len(providers) : Matches(pathname, providers[i].provider.routePrefix)}

\* C18: the provider a request is routed to is one of the providers whose
\* routePrefix matches its path and none that matches has a longer
\* routePrefix (so of two nested prefixes that match the longer wins); the
\* request gets no provider, and a 404, exactly when none matches
C18_LongestPrefixWins ==
    \A p \in Procs :
        req[p].started =>
            LET providers == req[p].config.providers
                M == Matching(providers, req[p].pathname) IN
            /\ (M = {}) <=> (req[p].name = None)
            /\ (req[p].name = None) <=> (req[p].outcome = "404")
            /\ M # {} =>
                  \E i \in M :
                      /\ providers[i] = Entry(req[p].name, req[p].provider)
                      /\ \A j \in M :
                            Len(providers[j].provider.routePrefix)
                               <= Len(providers[i].provider.routePrefix)

\* C18 witness: two nested prefixes match, the longer one comes first in
\* the table and the request is routed to it
C18_Witness ==
    \E p \in Procs :
        /\ req[p].started /\ Len(req[p].config.providers) = 2
        /\ Matching(req[p].config.providers, req[p].pathname) = {1, 2}
        /\ Len(req[p].config.providers[1].provider.routePrefix)
              > Len(req[p].config.providers[2].provider.routePrefix)
        /\ req[p].name = req[p].config.providers[1].name

\* ------------------------------------------------------ body transformation
\* the requests whose body prepareRequestBody has returned for
PreparedRequests ==
    {p \in Procs : req[p].started /\ req[p].name # None
                   /\ pc[p] \notin {"idle", "h_body"}}

\* a request declares JSON: its content type names application/json in
\* any case
DeclaresJson(p) == req[p].contentType \in {"application/json", "Application/JSON"}

\* the body of a request needs no change: the model member is the resolved
\* model (or no model is resolved), streaming is not to be suppressed (or
\* is off already and without options), no member is to be stripped
NeedsNoChange(p) ==
    LET members == req[p].body.members
        provider == req[p].provider
        resolvedModel == req[p].prepared.resolvedModel IN
    /\ \/ resolvedModel = None
       \/ getProperty(members, "model") = JString(resolvedModel)
    /\ \/ ~provider.disableStreaming
       \/ req[p].pathname # <<"/", "a", "/", "C">>
       \/ /\ getProperty(members, "stream") = JFalse
          /\ ~hasOwnProperty(members, "stream_options")
    /\ \A i \in 1..Len(provider.stripRequestProperties) :
          ~hasOwnProperty(members, provider.stripRequestProperties[i])

\* C19: a body that is empty, not declared JSON, not valid JSON or not a
\* JSON object, or a JSON object that needs no change, is forwarded byte
\* for byte as it came, with bodyWasMutated = false
C19_UnchangedBodyPassesThrough ==
    \A p \in PreparedRequests :
        (\/ req[p].body.kind # "object"
         \/ ~DeclaresJson(p)
         \/ NeedsNoChange(p))
        => /\ req[p].prepared.bodyWasMutated = FALSE
           /\ req[p].prepared.forwardBody = req[p].body

\* C19 witness: an object in the pretty layout that needs no change, under
\* a provider that suppresses streaming and strips max_tokens, went through
C19_Witness ==
    \E p \in PreparedRequests :
        /\ req[p].body.kind = "object" /\ req[p].body.layout = "pretty"
        /\ DeclaresJson(p) /\ NeedsNoChange(p)
        /\ req[p].provider.disableStreaming
        /\ req[p].pathname = <<"/", "a", "/", "C">>
        /\ req[p].provider.stripRequestProperties # <<>>
        /\ req[p].provider.modelAliasLookup # <<>>
        /\ req[p].prepared.resolvedModel = "canonical-y"
        /\ req[p].prepared.forwardBody = req[p].body

\* the canonical model a request's alias stands for (none: the body does
\* not name a model by an alias of its provider)
CanonicalModel(p) ==
    LET model == getProperty(req[p].body.members, "model")
        aliases == req[p].provider.modelAliasLookup IN
    IF /\ req[p].body.kind = "object"
       /\ DeclaresJson(p)
       /\ model.type = "string"
       /\ toLowerCase(trim(model.v)) \in DOMAIN aliases
        THEN aliases[toLowerCase(trim(model.v))]
        ELSE None

\* C20: a body that names its model by an alias is forwarded with the
\* canonical model; the payload whose tokens are counted is the forwarded,
\* rewritten body, and the tokens counted, and deducted from the bucket on
\* admission, are those of the rewritten body
C20_AliasResolvedBeforeCounting ==
    \A p \in PreparedRequests :
        CanonicalModel(p) # None =>
            LET forwardBody == req[p].prepared.forwardBody IN
            /\ getProperty(forwardBody.members, "model") = JString(CanonicalModel(p))
            /\ req[p].prepared.payloadForTokenCount = forwardBody
            /\ req[p].provider.tokenLimitPerMinute > 0 =>
                  req[p].tokens = countTokens(forwardBody)
            /\ rl[p].result = "admitted" =>
                  rl[p].deducted = countTokens(forwardBody)

\* C20 witness: a request that named its model by alias was admitted, and
\* its rewritten body counts for more tokens than the body that came in
C20_Witness ==
    \E p \in PreparedRequests :
        /\ CanonicalModel(p) # None
        /\ rl[p].result = "admitted"
        /\ rl[p].deducted = countTokens(req[p].prepared.forwardBody)
        /\ rl[p].deducted > countTokens(req[p].body)

\* ------------------------------------------------------- bucket invariants
\* C21: the available tokens of every bucket are between zero and its
\* capacity, whatever admissions, refills, status ticks and registerLimit
\* calls that raise or lower the capacity came before
C21_AvailableWithinCapacity ==
    \A k \in DOMAIN buckets :
        /\ 0 <= buckets[k].available
        /\ buckets[k].available <= buckets[k].capacity * Scale

\* C21 witness: a bucket that admitted more tokens than its capacity now is
\* (registerLimit lowered it) is full at the lowered capacity
C21_Witness ==
    \E k \in DOMAIN buckets :
        /\ buckets[k].usedInWindow > buckets[k].capacity
        /\ buckets[k].available = buckets[k].capacity * Scale

\* the sum of the tokens of the samples of a usage window
RECURSIVE SumTokens(_)
SumTokens(usageWindow) ==
    IF usageWindow = <<>> THEN 0
    ELSE Head(usageWindow).tokens + SumTokens(Tail(usageWindow))

\* no sample of the bucket is older than the window
NoStaleSample(bucket) ==
    \A i \in 1..Len(bucket.usageWindow) : bucket.usageWindow[i].age <= WindowMs

\* C22: usedInWindow of every bucket is the sum of the tokens of its
\* samples, the samples are ordered from oldest to newest, and a step that
\* prunes a bucket (an admission, a registerLimit call, an emitted status)
\* leaves no sample older than the window in it
C22_UsedIsSumOfWindow ==
    /\ [](\A k \in DOMAIN buckets :
            /\ buckets[k].usedInWindow = SumTokens(buckets[k].usageWindow)
            /\ \A i, j \in 1..Len(buckets[k].usageWindow) :
                  i < j => buckets[k].usageWindow[i].age
                              >= buckets[k].usageWindow[j].age)
    /\ [][\A k \in DOMAIN buckets' :
            (\/ \E name \in ProviderNames, l \in Limits \ {0} :
                   RegisterLimit(name, l) /\ toLowerCase(name) = k
             \/ /\ k \in DOMAIN buckets
                /\ Len(buckets'[k].usageWindow) # Len(buckets[k].usageWindow))
            => NoStaleSample(buckets'[k])]_vars

\* C22 witness: a bucket holds a sample after an older sample was pruned:
\* more tokens were deducted from it than its window counts
C22_Witness ==
    \E k \in DOMAIN buckets :
        /\ Len(buckets[k].usageWindow) = 1
        /\ granted[k] - buckets[k].available > buckets[k].usedInWindow * Scale

\* ------------------------------------------------------------ stage order
\* the requests that have to pass the limiter: their provider is rate
\* limited and their body counts
Limited ==
    {p \in Procs : /\ req[p].started
                   /\ pc[p] \notin {"idle", "h_body"}
                   /\ req[p].provider.tokenLimitPerMinute > 0
                   /\ req[p].prepared.payloadForTokenCount # NoPayload}

\* the request has called getToken or proxy()
Authorizing(p) == gt[p].key # None \/ req[p].forwards > 0

\* C23: a request that has to pass the limiter calls getToken and proxy()
\* only once waitForTokens has let it through, and a request cancelled
\* while it slept in waitForTokens never calls either: it ends with the
\* cancellation error
C23_StagesInOrder ==
    \A p \in Limited :
        /\ Authorizing(p) => rl[p].result \in {"admitted", "unthrottled"}
        /\ pc[p] \in {"rl_sleep", "h_admitted"} => ~Authorizing(p)
        /\ abortedAt[p] = "rl_sleep" =>
              /\ ~Authorizing(p)
              /\ exchanges[req[p].auth] = 0 \/ \E q \in Procs \ {p} : gt[q].key = req[p].auth
              /\ pc[p] = "done" => req[p].outcome = "AbortError"

\* C23 witness: one request was cancelled in its sleep and has ended, while
\* the other went through the limiter, the exchange and the upstream call
C23_Witness ==
    \E p, q \in Limited :
        /\ abortedAt[p] = "rl_sleep" /\ pc[p] = "done"
        /\ rl[q].result = "admitted" /\ gt[q].endpoint # None
        /\ req[q].forwards > 0

\* ------------------------------------------------------------- token cache
\* the positions of a getToken call that has not settled
Pending == {"gt_queued", "gt_locked", "gt_fetch", "gt_text"}

\* C24: a step in which a getToken call, forced or not, settles without a
\* token (none returned, or an exception) leaves every cache entry as it
\* was, token and timestamp, and creates none
C24_FailedExchangeKeepsCache ==
    [][\A p \in Procs :
        (/\ pc[p] \in Pending /\ pc'[p] \notin Pending
         /\ ~IsToken(gt'[p].result))
        => cache' = cache]_vars

\* C24 witness: a forced call has settled without a token after an exchange
\* of its own, and the entry of its key is the one an earlier exchange wrote
C24_Witness ==
    \E p \in Procs :
        /\ pc[p] = "done" /\ gt[p].force /\ ~IsToken(gt[p].result)
        /\ gt[p].endpoint # None
        /\ gt[p].key \in DOMAIN cache
        /\ cache[gt[p].key].lastUpdatedUnixMs < exchanges[gt[p].key]

DebounceTickMs == (ReloadDebounceMs + TicksPerDebounce - 1) \div TicksPerDebounce

\* the ConfigStore with its watcher, write events arriving at any time
NextWatch ==
    \/ ScheduleReload
    \/ ReloadStart
    \/ \E i \in 1..MaxReloads, nextConfig \in StoreConfigs : ReloadResolves(i, nextConfig)
    \/ \E i \in 1..MaxReloads : ReloadRejects(i)
    \/ EmitAllStatuses
    \/ Elapse(DebounceTickMs)

SpecWatch == InitStore /\ [][NextWatch]_vars

\* C26: the pending timer always expires 100 ms after the latest write
\* event, so an event that follows the previous one by less than 100 ms
\* pushes the reload back instead of starting one; a reload starts only
\* when the 100 ms since the latest event are over, it consumes the timer,
\* and so the burst starts one reload and no second one
C26_OneReloadPerBurst ==
    /\ [](reloadTimer # NoTimer => reloadTimer = ReloadDebounceMs - sinceEvent)
    /\ [][/\ Len(loading') > Len(loading) =>
                /\ sinceEvent = ReloadDebounceMs
                /\ reloadTimer = 0
                /\ reloadTimer' = NoTimer
                /\ Len(loading') = Len(loading) + 1
          /\ ScheduleReload =>
                /\ reloadTimer' = ReloadDebounceMs
                /\ loading' = loading
          /\ (reloadTimer = NoTimer /\ reloadTimer' # NoTimer) => sinceEvent' = 0]_vars

\* C26: a burst of two write events has started its one reload, 100 ms
\* after the second event
C26_Witness ==
    /\ burst = MaxBurst
    /\ sinceEvent = ReloadDebounceMs
    /\ reloadTimer = NoTimer
    /\ Len(loading) = 1

\* ------------------------------------------------------- registerLimit
\* the samples of a usage window that are no older than the window
FreshSamples(usageWindow) ==
    SelectSeq(usageWindow, LAMBDA sample : sample.age <= WindowMs)

\* a step is a registerLimit call for the bucket k with the positive limit l
Registers(k, l) ==
    \E name \in ProviderNames : toLowerCase(name) = k /\ RegisterLimit(name, l)

\* what a registerLimit call with the limit l does to the bucket k apart
\* from its usage window: a missing bucket is created full; an existing one
\* gets the capacity and the refill rate of l, keeps its refill time, and
\* its available tokens are lowered to the new capacity where they exceed
\* it, and never raised; no other bucket changes
RegistersWithoutConsuming(k, l) ==
    /\ DOMAIN buckets' = DOMAIN buckets \cup {k}
    /\ \A other \in DOMAIN buckets \ {k} : buckets'[other] = buckets[other]
    /\ buckets'[k].capacity = l
    /\ buckets'[k].refillRatePerSecond = (l * Scale) \div SecondsPerMinute
    /\ IF k \in DOMAIN buckets
          THEN /\ buckets'[k].available = Min(buckets[k].available, l * Scale)
               /\ buckets'[k].sinceRefill = buckets[k].sinceRefill
          ELSE /\ buckets'[k].available = l * Scale
               /\ buckets'[k].usageWindow = <<>>
               /\ buckets'[k].usedInWindow = 0

\* C27 as stated: registerLimit consumes nothing and leaves the usage
\* window and usedInWindow of an existing bucket as they were
C27_RegisterLimitKeepsWindow ==
    [][\A k \in {toLowerCase(name) : name \in ProviderNames}, l \in Limits \ {0} :
          Registers(k, l) =>
             /\ RegistersWithoutConsuming(k, l)
             /\ k \in DOMAIN buckets =>
                   /\ buckets'[k].usageWindow = buckets[k].usageWindow
                   /\ buckets'[k].usedInWindow = buckets[k].usedInWindow]_vars

\* C27: registerLimit consumes nothing and records nothing; of the usage
\* window of an existing bucket it keeps the samples that are no older
\* than the window, in their order, and drops the others, and usedInWindow
\* is lowered by the tokens of the dropped samples
C27_RegisterLimitOnlyPrunes ==
    [][\A k \in {toLowerCase(name) : name \in ProviderNames}, l \in Limits \ {0} :
          Registers(k, l) =>
             /\ RegistersWithoutConsuming(k, l)
             /\ k \in DOMAIN buckets =>
                   /\ buckets'[k].usageWindow = FreshSamples(buckets[k].usageWindow)
                   /\ buckets'[k].usedInWindow
                        = buckets[k].usedInWindow
                          - (SumTokens(buckets[k].usageWindow)
                             - SumTokens(FreshSamples(buckets[k].usageWindow)))]_vars

\* C27 witness: registerLimit lowered the capacity of a bucket below what
\* it had admitted, the available tokens were lowered with it, and the
\* sample of the admission has left the window
C27_Witness ==
    \E k \in DOMAIN buckets :
        /\ granted[k] - buckets[k].available > buckets[k].capacity * Scale
        /\ buckets[k].available < buckets[k].capacity * Scale
        /\ buckets[k].usageWindow = <<>>

\* ------------------------------------------------------- admission bound
\* an interval starts: from now on the tokens that the bucket key admits
\* and the time that passes are measured, as long as its capacity stays
StartMeter(key) ==
    /\ meter = NoMeter
    /\ key \in DOMAIN buckets
    /\ meter' = [key |-> key, capacity |-> buckets[key].capacity,
                 elapsedMs |-> 0, admitted |-> 0]
    /\ UNCHANGED <<pc, sigVars, configVars, tokenVars, buckets, activeKeys, statusTimer,
                   sinceStatus, rl, timer, granted, req>>

\* TokenRateLimiter with callers of waitForTokens and registerLimit on the
\* provider "Kepler", measured over an interval that starts at any point
NextMeter ==
    \/ \E p \in Procs, l \in Limits \ {0}, n \in TokenCounts \ {0} :
          StartWait(p, "Kepler", l, n)
    \/ \E p \in Procs : WaitWake(p)
    \/ \E l \in Limits \ {0} : RegisterLimit("Kepler", l)
    \/ StartMeter("kepler")
    \/ EmitAllStatuses
    \/ AdvanceTime

SpecMeter == InitLimiter /\ [][NextMeter]_vars

\* C28: over an interval of T seconds in which the capacity of a bucket
\* stays C, the bucket admits at most C + T * C / 60 tokens; T is
\* elapsedMs / 1000, and both sides are multiplied by 60 000
C28_AdmittedWithinBurstAndRate ==
    (meter.key # None /\ meter.elapsedMs <= MeterMs) =>
        meter.admitted * WindowMs
            <= meter.capacity * WindowMs + meter.elapsedMs * meter.capacity

\* C28 witness: over an interval of 30 s or more, shorter than the window,
\* the bucket has admitted more than its capacity: the burst and part of
\* the refill
C28_Witness ==
    /\ meter.key # None
    /\ meter.elapsedMs < WindowMs
    /\ meter.admitted > meter.capacity
    /\ buckets[meter.key].capacity = meter.capacity

\* ------------------------------------------------------- one deduction
\* the token estimates of the requests of the set S
RECURSIVE EstimatesOf(_)
EstimatesOf(S) ==
    IF S = {} THEN 0
    ELSE LET p == CHOOSE q \in S : TRUE IN rl[p].tokens + EstimatesOf(S \ {p})

\* the requests that have been forwarded a second time by the auth retry
Retried == {p \in Procs : req[p].started /\ Len(req[p].responses) >= 1
                                         /\ pc[p] \in {"gt_queued", "gt_locked", "gt_fetch",
                                                        "gt_text", "so_token", "h_proxy", "done"}
                                         /\ (pc[p] = "done" => Len(req[p].responses) = 2)}

\* C29: what has been taken from a bucket is the estimate of every request
\* admitted through it, once, whether or not the request was forwarded a
\* second time; the usage window holds one sample per admitted request at
\* most and counts no more than their estimates
C29_DeductedOncePerRequest ==
    \A k \in DOMAIN buckets :
        /\ granted[k] - buckets[k].available = EstimatesOf(AdmittedOn(k)) * Scale
        /\ Len(buckets[k].usageWindow) <= Cardinality(AdmittedOn(k))
        /\ buckets[k].usedInWindow <= EstimatesOf(AdmittedOn(k))

\* C29 witness: a request that was admitted with its estimate got 401 and
\* has been answered a second time, its sample still in the window
C29_Witness ==
    \E p \in Retried :
        /\ pc[p] = "done"
        /\ rl[p].result = "admitted"
        /\ rl[p].tokens > 0
        /\ buckets[rl[p].key].usedInWindow >= rl[p].tokens

\* ------------------------------------------------------ overlapping reloads
\* C30: of reloads that overlap, one that started earlier never replaces
\* the snapshot after one that started later has replaced it, so the
\* snapshot in effect when all have completed is the one of the reload
\* that started last
C30_LaterReloadWins ==
    [][\A i \in 1..MaxReloads, nextConfig \in StoreConfigs :
          ReloadResolves(i, nextConfig) => ~loading[i]]_vars

\* ------------------------------------------------------- lock order
\* TokenService under the scheduling the runtime guarantees: a getToken
\* call that was handed the lock resumes, and every outbound exchange gets
\* its answer or fails
FairSpecToken ==
    /\ InitToken /\ [][NextToken]_vars
    /\ \A p \in Procs : WF_vars(GetTokenLocked(p))
    /\ \A p \in Procs : WF_vars((\E ok \in BOOLEAN : FetchResponse(p, ok)) \/ FetchFails(p))
    /\ \A p \in Procs :
          WF_vars(\E json \in BOOLEAN, body \in TokenBodies : FetchBody(p, json, body))

\* the calls that wait in the queue of the lock of key k
Queued(k) == {p \in Procs : pc[p] = "gt_queued" /\ gt[p].key = k}

CallsNonForced(p, k) ==
    /\ pc[p] = "idle" /\ pc'[p] # "idle"
    /\ gt'[p].key = k /\ ~gt'[p].force

\* C32: a cache entry holds a token, never none and never the empty
\* string, and is never removed; and a non-forced call on a key that has
\* an entry returns the token of the entry in the step of the call: it
\* joins no queue, takes no lock and starts no exchange
C32_CachedEntryAnswers ==
    /\ [](\A k \in DOMAIN cache : IsToken(cache[k].token) /\ cache[k].token # "")
    /\ [][/\ DOMAIN cache \subseteq DOMAIN cache'
          /\ \A p \in Procs, k \in DOMAIN cache :
                CallsNonForced(p, k) =>
                   /\ pc'[p] = AfterGetToken(gt'[p].caller)
                   /\ gt'[p].result = cache[k].token
                   /\ locks' = locks
                   /\ exchanges' = exchanges
                   /\ cache' = cache]_vars

\* C32 witness: after the one exchange for a key has cached its token, a
\* non-forced call on the key has returned the cached token
C32_Witness ==
    \E k \in DOMAIN cache, p, q \in Procs :
        /\ p # q
        /\ pc[p] = "done" /\ gt[p].key = k /\ gt[p].endpoint # None
        /\ pc[q] = "done" /\ gt[q].key = k /\ ~gt[q].force
        /\ gt[q].endpoint = None
        /\ gt[q].result = cache[k].token
        /\ exchanges[k] = 1

\* ------------------------------------------------------- transformation twice
\* the alias lookup mapProxyConfig builds from the models canonical-y with
\* modelAlias alias-x and model-z with modelAlias canonical-y
ChainAliases ==
    [alias \in {"alias-x", "canonical-y"} |->
        IF alias = "alias-x" THEN "canonical-y" ELSE "model-z"]

\* provider settings that prepareRequestBody reads, with one alias table
\* whose targets are no aliases and one in which a target is an alias, and
\* with lists of stripped properties that name model or stream
RewriteProviders ==
    {Provider(KeplerRoute, defaultModel, aliases, disableStreaming, strip, 0) :
        defaultModel \in {"", "canonical-y"},
        aliases \in {KeplerAliases, ChainAliases},
        disableStreaming \in BOOLEAN,
        strip \in {<<>>, <<"", "max_tokens">>, <<"model">>, <<"stream">>}}

\* body transformation alone: one request arrives with a JSON object body
\* for the one provider of the snapshot
InitRewrite ==
    \E provider \in RewriteProviders :
        InitWith(Config(FALSE, "https://idp/token", <<Entry("Kepler", provider)>>))

NextRewrite ==
    \/ \E pathname \in BodyPaths, body \in {b \in Bodies : parsesToObject(b)} :
          HandlerStart(1, pathname, None, "application/json", body)
    \/ HandlerBody(1)

SpecRewrite == InitRewrite /\ [][NextRewrite]_vars

\* the requests whose JSON object body has been transformed
Transformed ==
    {p \in Procs : /\ req[p].started
                   /\ pc[p] \notin {"idle", "h_body"}
                   /\ includesJson(req[p].contentType)
                   /\ parsesToObject(req[p].body)}

\* C33: transforming the forward body of a transformed request once more,
\* for the same provider and path, changes nothing and resolves the same
\* model
C33_TransformIdempotent ==
    \A p \in Transformed :
        LET again == prepareRequestBody(req[p].contentType, req[p].prepared.forwardBody,
                                        req[p].provider, req[p].pathname) IN
        /\ ~again.bodyWasMutated
        /\ again.resolvedModel = req[p].prepared.resolvedModel

====
